---------------------------- MODULE Spec2Model ----------------------------
(***************************************************************************)
(* PocketTrader host side: the limit order book (orderbook.py), the venue  *)
(* simulator (exchange_sim.py) and the trade bridge (trade_bridge.py).     *)
(*                                                                         *)
(* Units.  Prices are integers counting half ticks (TickSize = 2 units is  *)
(* the book's tick_size), so that a client price can fall between two grid *)
(* prices and round_price has something to do.  Quantities are integers    *)
(* counting half micro-units (0.5e-6): the book's epsilon 1e-9 lies        *)
(* strictly between 0 and 1 unit, and the "%.6f" of the wire formats       *)
(* rounds a quantity to a whole number of micro-units (2 units).           *)
(* Python object references to Order objects held by the book are handles  *)
(* (naturals) into book.orders.                                            *)
(***************************************************************************)
EXTENDS Integers, Sequences, FiniteSets, TLC

\* ------------------------------------------------------------------------
\* Bounds of the model
\* ------------------------------------------------------------------------

\* how many orders may come to rest in a book during one run
MaxRest == 2

\* ------------------------------------------------------------------------
\* Program constants
\* ------------------------------------------------------------------------

\* OrderBook.tick_size, in price units (half ticks)
TickSize == 2

SYMBOL == "BTCUSD"

None == "None"

\* ------------------------------------------------------------------------
\* Generic helpers (Python dict / list / deque primitives)
\* ------------------------------------------------------------------------

EmptyMap == [x \in {} |-> 0]

Put(f, k, v) == [x \in (DOMAIN f) \cup {k} |-> IF x = k THEN v ELSE f[x]]

Del(f, k) == [x \in (DOMAIN f) \ {k} |-> f[x]]

Min(a, b) == IF a <= b THEN a ELSE b

SetMin(S) == CHOOSE x \in S : \A y \in S : x <= y

SetMax(S) == CHOOSE x \in S : \A y \in S : x >= y

Range(s) == {s[i] : i \in DOMAIN s}

\* list.remove(x): drops the first occurrence
RemoveFirst(s, x) ==
    IF \E i \in DOMAIN s : s[i] = x
    THEN LET i == CHOOSE j \in DOMAIN s : s[j] = x /\ \A k \in 1..(j - 1) : s[k] # x
         IN  SubSeq(s, 1, i - 1) \o SubSeq(s, i + 1, Len(s))
    ELSE s

\* Python's round(n / d) for d > 0: nearest integer, ties to the even one
RoundHalfEven(n, d) ==
    LET q == n \div d
        r == n % d
    IN  IF 2 * r < d THEN q
        ELSE IF 2 * r > d THEN q + 1
        ELSE IF q % 2 = 0 THEN q ELSE q + 1

\* x > 1e-9 for a quantity x counted in half micro-units
AboveEps(x) == x > 0

\* ------------------------------------------------------------------------
\* orderbook.py
\* ------------------------------------------------------------------------

Order(oid, cid, side, type, price, qty, ts) ==
    [order_id |-> oid, client_id |-> cid, side |-> side, type |-> type,
     price |-> price, qty |-> qty, remaining |-> qty, ts_ns |-> ts]

Trade(price, qty, taker, maker) ==
    [symbol |-> SYMBOL, price |-> price, qty |-> qty,
     taker_order_id |-> taker.order_id, maker_order_id |-> maker.order_id,
     taker_client_id |-> taker.client_id, maker_client_id |-> maker.client_id,
     ts_ns |-> taker.ts_ns]

\* OrderBook.__init__.  orders maps a handle to the Order object it names;
\* nadd counts the orders that have come to rest and is the next handle.
\* last_trade_price is written by the matching loops and read by nothing,
\* and is left out.
EmptyBook ==
    [bids |-> EmptyMap, asks |-> EmptyMap,
     bid_prices |-> <<>>, ask_prices |-> <<>>,
     order_index |-> EmptyMap, orders |-> EmptyMap, nadd |-> 0]

round_price(price) ==
    IF TickSize <= 0 THEN price
    ELSE RoundHalfEven(price, TickSize) * TickSize

insert_price_level(price_list, price, ascending) ==
    IF price \in Range(price_list) THEN price_list
    ELSE SortSeq(Append(price_list, price),
                 LAMBDA a, b : IF ascending THEN a < b ELSE a > b)

\* the emptied level leaves the map and its price stays on the list
cleanup_keeps_price(side_dict, price_list, price) ==
    IF price \notin DOMAIN side_dict \/ side_dict[price] = <<>>
    THEN <<Del(side_dict, price), price_list>>
    ELSE <<side_dict, price_list>>

\* returns the pair <<side_dict, price_list>>
cleanup_price_level(side_dict, price_list, price) ==
    IF price \notin DOMAIN side_dict \/ side_dict[price] = <<>>
    THEN <<Del(side_dict, price), RemoveFirst(price_list, price)>>
    ELSE <<side_dict, price_list>>

RECURSIVE SumRemaining(_, _)
SumRemaining(bk, q) ==
    IF q = <<>> THEN 0
    ELSE bk.orders[Head(q)].remaining + SumRemaining(bk, Tail(q))

best_bid(bk) ==
    IF bk.bid_prices = <<>> THEN None
    ELSE LET best_price == SetMax(Range(bk.bid_prices))
         IN  <<best_price, SumRemaining(bk, bk.bids[best_price])>>

best_ask(bk) ==
    IF bk.ask_prices = <<>> THEN None
    ELSE LET best_price == SetMin(Range(bk.ask_prices))
         IN  <<best_price, SumRemaining(bk, bk.asks[best_price])>>

top_of_book(bk) ==
    LET bid == best_bid(bk)
        ask == best_ask(bk)
    IN  <<IF bid # None THEN bid[1] ELSE None,
          IF ask # None THEN ask[1] ELSE None>>

\* appendleft in place of append: the newest order at the head of its level
deque_appendleft(q, h) == <<h>> \o q

\* deque.append of line 176
deque_append(q, h) == Append(q, h)

add_to_book(bk, side, price, order) ==
    LET h == bk.nadd
        side_dict == IF side = "B" THEN bk.bids ELSE bk.asks
        price_list == IF side = "B" THEN bk.bid_prices ELSE bk.ask_prices
        fresh == price \notin DOMAIN side_dict
        d1 == IF fresh THEN Put(side_dict, price, <<>>) ELSE side_dict
        l1 == IF fresh THEN insert_price_level(price_list, price, side = "S")
              ELSE price_list
        d2 == [d1 EXCEPT ![price] = deque_append(@, h)]
        b1 == IF side = "B"
              THEN [bk EXCEPT !.bids = d2, !.bid_prices = l1]
              ELSE [bk EXCEPT !.asks = d2, !.ask_prices = l1]
    IN  [b1 EXCEPT !.orders = Put(@, h, order),
                   !.order_index = Put(@, order.order_id, h),
                   !.nadd = h + 1]

\* The handles some level or the index still refers to; an Order object the
\* book no longer refers to is dropped from book.orders.
Referenced(bk) ==
    UNION {Range(bk.bids[p]) : p \in DOMAIN bk.bids}
    \cup UNION {Range(bk.asks[p]) : p \in DOMAIN bk.asks}
    \cup Range(bk.order_index)

Collect(bk) ==
    [bk EXCEPT !.orders = [h \in (DOMAIN bk.orders) \cap Referenced(bk) |-> bk.orders[h]]]

\* >= in place of >: a buy limit no longer takes an ask at its own price
buy_stops_at_equal(order, best_ask_price) ==
    order.type = "L" /\ best_ask_price >= order.price

\* line 183: a buy limit stops at a best ask above its price (1e-12 is far
\* below one price unit)
buy_stops(order, best_ask_price) ==
    order.type = "L" /\ best_ask_price > order.price

\* a sell limit takes a bid one tick below its price
sell_stops_a_tick_late(order, best_bid_price) ==
    order.type = "L" /\ best_bid_price < order.price - TickSize

\* line 228
sell_stops(order, best_bid_price) ==
    order.type = "L" /\ best_bid_price < order.price

\* lines 189 and 234
trade_qty(order, resting) == Min(order.remaining, resting.remaining)

\* the taker's limit price in place of the level's price
trade_price_of_taker(level_price, order) ==
    IF order.type = "L" THEN order.price ELSE level_price

\* lines 193 and 238: the price of the level being consumed
trade_price(level_price, order) == level_price

\* any fill takes the whole remaining quantity
dec_remaining_to_zero(remaining, tq) == 0

\* lines 207-208 and 252-253: remaining -= trade_qty
dec_remaining(remaining, tq) == remaining - tq

\* The state of a matching loop: the book, the incoming order, the trades so
\* far, the handles of their makers (the objects `resting` named), and spin:
\* the inner loop left on trade_qty <= 0, after which the outer loop would
\* repeat the same pass for ever.
MatchState(bk, order) ==
    [book |-> bk, order |-> order, trades |-> <<>>, makers |-> <<>>, spin |-> FALSE]

\* the index keeps the entry of an order that was filled
index_keep(order_index, order_id) == order_index

\* lines 212 and 257: self._order_index.pop(resting.order_id, None)
index_pop(order_index, order_id) == Del(order_index, order_id)

\* lines 207-212 (252-257) on the book: the resting object h loses tq and,
\* when nothing is left of it, leaves the head of its level and the index
fill_resting(bk, side, price, h, left) ==
    IF AboveEps(left)
    THEN [bk EXCEPT !.orders[h].remaining = left]
    ELSE IF side = "S"
    THEN [bk EXCEPT !.orders[h].remaining = left,
                    !.asks[price] = Tail(@),
                    !.order_index = index_pop(@, bk.orders[h].order_id)]
    ELSE [bk EXCEPT !.orders[h].remaining = left,
                    !.bids[price] = Tail(@),
                    !.order_index = index_pop(@, bk.orders[h].order_id)]

\* lines 193-212 (238-257): one trade of quantity tq against the resting
\* object h at the head of the level at level_price
one_trade(st, side, level_price, h, tq) ==
    [book |-> fill_resting(st.book, side, level_price, h,
                           dec_remaining(st.book.orders[h].remaining, tq)),
     order |-> [st.order EXCEPT !.remaining = dec_remaining(@, tq)],
     trades |-> Append(st.trades,
                       Trade(trade_price(level_price, st.order), tq,
                             st.order, st.book.orders[h])),
     makers |-> Append(st.makers, h),
     spin |-> FALSE]

\* the inner while loop of _match_buy on the level at best_ask_price
RECURSIVE match_buy_level(_, _)
match_buy_trade(st, best_ask_price, h, tq) ==
    IF tq <= 0 THEN [st EXCEPT !.spin = TRUE]
    ELSE match_buy_level(one_trade(st, "S", best_ask_price, h, tq), best_ask_price)

match_buy_level(st, best_ask_price) ==
    IF st.book.asks[best_ask_price] = <<>> \/ ~AboveEps(st.order.remaining) THEN st
    ELSE match_buy_trade(st, best_ask_price, Head(st.book.asks[best_ask_price]),
                         trade_qty(st.order,
                                   st.book.orders[Head(st.book.asks[best_ask_price])]))

\* lines 217-218: the level is dropped once it is empty
buy_level_done(st, cl) ==
    [st EXCEPT !.book.asks = cl[1], !.book.ask_prices = cl[2]]

\* the outer while loop of _match_buy
RECURSIVE match_buy_loop(_)
match_buy_next(st) ==
    IF st.spin THEN st
    ELSE IF st.order.type = "M" /\ st.book.ask_prices = <<>> THEN st
    ELSE match_buy_loop(st)

match_buy_after_level(st, best_ask_price) ==
    match_buy_next(
        IF st.book.asks[best_ask_price] = <<>>
        THEN buy_level_done(st, cleanup_price_level(st.book.asks, st.book.ask_prices,
                                                    best_ask_price))
        ELSE st)

match_buy_at(st, best_ask_price) ==
    IF buy_stops(st.order, best_ask_price) THEN st
    ELSE match_buy_after_level(match_buy_level(st, best_ask_price), best_ask_price)

match_buy_loop(st) ==
    IF ~(AboveEps(st.order.remaining) /\ st.book.ask_prices # <<>>) THEN st
    ELSE match_buy_at(st, SetMin(Range(st.book.ask_prices)))

match_buy(bk, order) == match_buy_loop(MatchState(bk, order))

\* the inner while loop of _match_sell on the level at best_bid_price
RECURSIVE match_sell_level(_, _)
match_sell_trade(st, best_bid_price, h, tq) ==
    IF tq <= 0 THEN [st EXCEPT !.spin = TRUE]
    ELSE match_sell_level(one_trade(st, "B", best_bid_price, h, tq), best_bid_price)

match_sell_level(st, best_bid_price) ==
    IF st.book.bids[best_bid_price] = <<>> \/ ~AboveEps(st.order.remaining) THEN st
    ELSE match_sell_trade(st, best_bid_price, Head(st.book.bids[best_bid_price]),
                          trade_qty(st.order,
                                    st.book.orders[Head(st.book.bids[best_bid_price])]))

\* lines 262-263
sell_level_done(st, cl) ==
    [st EXCEPT !.book.bids = cl[1], !.book.bid_prices = cl[2]]

\* the outer while loop of _match_sell
RECURSIVE match_sell_loop(_)
match_sell_next(st) ==
    IF st.spin THEN st
    ELSE IF st.order.type = "M" /\ st.book.bid_prices = <<>> THEN st
    ELSE match_sell_loop(st)

match_sell_after_level(st, best_bid_price) ==
    match_sell_next(
        IF st.book.bids[best_bid_price] = <<>>
        THEN sell_level_done(st, cleanup_price_level(st.book.bids, st.book.bid_prices,
                                                     best_bid_price))
        ELSE st)

match_sell_at(st, best_bid_price) ==
    IF sell_stops(st.order, best_bid_price) THEN st
    ELSE match_sell_after_level(match_sell_level(st, best_bid_price), best_bid_price)

match_sell_loop(st) ==
    IF ~(AboveEps(st.order.remaining) /\ st.book.bid_prices # <<>>) THEN st
    ELSE match_sell_at(st, SetMax(Range(st.book.bid_prices)))

match_sell(bk, order) == match_sell_loop(MatchState(bk, order))

\* a limit order is posted whatever is left of it, nothing included
rests_whatever_is_left(order) == order.type = "L"

\* what is left of an order of any kind is posted
rests_any_kind(order) == AboveEps(order.remaining)

\* lines 127 and 132: if order.type == "L" and order.remaining > 1e-9
rests(order) == order.type = "L" /\ AboveEps(order.remaining)

\* lines 126-128 and 131-133: what is left of a limit order is posted; the
\* result of add_order.  status is "ok" or "spin"; order is the Order object
\* as the call left it, objs the maker objects as the call left them (a maker
\* that was popped is no longer in the book, but the object lives on).
post_residual(st) ==
    [book |-> Collect(IF ~st.spin /\ rests(st.order)
                      THEN add_to_book(st.book, st.order.side, st.order.price, st.order)
                      ELSE st.book),
     order |-> st.order, trades |-> st.trades, makers |-> st.makers,
     objs |-> [h \in Range(st.makers) |-> st.book.orders[h]],
     status |-> IF st.spin THEN "spin" ELSE "ok"]

\* lines 119-133 for an order whose side and kind are valid
add_valid_order(bk, order) ==
    post_residual(IF order.side = "B" THEN match_buy(bk, order)
                  ELSE match_sell(bk, order))

\* add_order; status "ValueError" is the raise of lines 114-117, which leaves
\* the book untouched
add_order(bk, order) ==
    IF order.side \notin {"B", "S"} \/ order.type \notin {"L", "M"}
    THEN [book |-> bk, order |-> order, trades |-> <<>>, makers |-> <<>>,
          objs |-> EmptyMap, status |-> "ValueError"]
    ELSE add_valid_order(bk, IF order.type = "L"
                             THEN [order EXCEPT !.price = round_price(@)]
                             ELSE order)

\* popleft in place of remove(o)
deque_popleft(bk, q, h) == Tail(q)

\* deque.remove(o): drops the first element equal to o (dataclass equality
\* compares the fields)
deque_remove(bk, q, h) ==
    LET i == CHOOSE j \in DOMAIN q :
                 /\ bk.orders[q[j]] = bk.orders[h]
                 /\ \A k \in 1..(j - 1) : bk.orders[q[k]] # bk.orders[h]
    IN  SubSeq(q, 1, i - 1) \o SubSeq(q, i + 1, Len(q))

\* lines 156-160: the order is taken out of its level, the level dropped if
\* that empties it, and the index entry popped
remove_resting(bk, order_id, isBid, cl) ==
    [book |-> Collect(IF isBid
                      THEN [bk EXCEPT !.bids = cl[1], !.bid_prices = cl[2],
                                      !.order_index = Del(@, order_id)]
                      ELSE [bk EXCEPT !.asks = cl[1], !.ask_prices = cl[2],
                                      !.order_index = Del(@, order_id)]),
     ok |-> TRUE]

dropped_if_empty(side_dict, price_list, price) ==
    IF side_dict[price] = <<>>
    THEN cleanup_price_level(side_dict, price_list, price)
    ELSE <<side_dict, price_list>>

\* lines 142-143, 151-152, 162-163: the index entry is popped and False returned
pop_and_fail(bk, order_id) ==
    [book |-> Collect([bk EXCEPT !.order_index = Del(@, order_id)]), ok |-> FALSE]

\* lines 145-163 for the Order object h the index gave
cancel_found(bk, order_id, h, side_dict, price_list, price) ==
    IF ~AboveEps(bk.orders[h].remaining) THEN pop_and_fail(bk, order_id)
    ELSE IF price \notin DOMAIN side_dict \/ side_dict[price] = <<>>
    THEN pop_and_fail(bk, order_id)
    ELSE IF h \in Range(side_dict[price])
    THEN remove_resting(bk, order_id, bk.orders[h].side = "B",
             dropped_if_empty([side_dict EXCEPT ![price] = deque_remove(bk, @, h)],
                              price_list, price))
    ELSE pop_and_fail(bk, order_id)

\* cancel_order: the book after the call and the value returned
cancel_order(bk, order_id) ==
    IF order_id \notin DOMAIN bk.order_index THEN [book |-> bk, ok |-> FALSE]
    ELSE IF bk.orders[bk.order_index[order_id]].side = "B"
    THEN cancel_found(bk, order_id, bk.order_index[order_id],
                      bk.bids, bk.bid_prices, bk.orders[bk.order_index[order_id]].price)
    ELSE cancel_found(bk, order_id, bk.order_index[order_id],
                      bk.asks, bk.ask_prices, bk.orders[bk.order_index[order_id]].price)

\* ------------------------------------------------------------------------
\* exchange_sim.py
\* ------------------------------------------------------------------------

\* --exch-id of this venue
EXCH_ID == "EXA"

\* RandomOrderFlow._next_order_id at construction
RfgFirstId == 1000000000

\* RandomOrderFlow.min_qty, 0.01, in quantity units
MinQty == 20000

\* one price unit (half a tick of 0.01) in millionths
PriceUnitMicros == 5000

\* str.upper on the strings that occur
Upper(str) ==
    CASE str = "b" -> "B" [] str = "s" -> "S"
      [] str = "l" -> "L" [] str = "m" -> "M"
      [] str = "buy" -> "BUY" [] str = "sell" -> "SELL"
      [] str = "exa" -> "EXA" [] str = "exb" -> "EXB"
      [] OTHER -> str

\* "%.6f" of a price: the number of millionths printed
FormatPrice(price) == price * PriceUnitMicros

\* the quantity printed is a millionth too high
FormatQtyTooHigh(qty) == (qty + 3) \div 2

\* "%.6f" of a quantity: the number of millionths printed, the nearest one
FormatQty(qty) == RoundHalfEven(qty, 2)

\* the FILL datagram of _log_trade, less its send timestamp
FILL(tr) ==
    [exch_id |-> EXCH_ID, symbol |-> tr.symbol,
     price |-> FormatPrice(tr.price), qty |-> FormatQty(tr.qty),
     taker_client |-> tr.taker_client_id, taker_oid |-> tr.taker_order_id,
     maker_client |-> tr.maker_client_id, maker_oid |-> tr.maker_order_id]

\* ExchangeSimulator.__init__, the order path: the phase of run()'s loop body,
\* whether the process still runs, the last reading of the monotonic clock,
\* the loop's now_mono_ns, the order delay line, the random flow's id
\* counter, the FILL datagrams sent.  History kept beside them: nrecv counts
\* the orders enqueued and numbers them, released lists the numbers of the
\* orders passed to add_order, book_trades the Trades the book has returned.
VenueInit ==
    [pc |-> "poll", status |-> "running", mono |-> 0, now_mono_ns |-> 0,
     pending_orders |-> <<>>, next_order_id |-> RfgFirstId,
     fills_sent |-> <<>>,
     nrecv |-> 0, released |-> <<>>, book_trades |-> <<>>]

\* insert(0, x) in place of append(x)
pending_insert_front(pending, entry) == <<entry>> \o pending

\* line 246: self._pending_orders.append((scheduled_ns, order))
pending_append(pending, entry) == Append(pending, entry)

\* _schedule_order, jitter being the clamped latency sample int(jitter)
schedule_order(vs, order, now_mono_ns, jitter) ==
    [vs EXCEPT !.pending_orders =
                   pending_append(@, [scheduled_ns |-> now_mono_ns + jitter,
                                      order |-> [order EXCEPT !.ts_ns = now_mono_ns + jitter],
                                      n |-> vs.nrecv + 1]),
               !.nrecv = @ + 1]

\* _log_trade for each trade of a list: one FILL datagram each
log_trades(fills, trades) ==
    fills \o [i \in 1..Len(trades) |-> FILL(trades[i])]

\* the pair of the venue and its book
VenueAndBook(vs, bk) == [venue |-> vs, book |-> bk]

\* lines 263-264: the entries processed leave the delay line
delete_released(vs, bk, idx) ==
    VenueAndBook([vs EXCEPT !.pending_orders = SubSeq(@, idx + 1, Len(@))], bk)

\* the while loop of _process_pending_orders, idx entries done.  A ValueError
\* out of add_order leaves run() (it catches KeyboardInterrupt alone), and a
\* matching loop that never ends keeps the process in it.
RECURSIVE process_pending_from(_, _, _, _)
process_pending_added(vs, now_mono_ns, idx, n, r) ==
    IF r.status = "ValueError"
    THEN VenueAndBook([vs EXCEPT !.status = "crashed",
                                 !.released = Append(@, n)], r.book)
    ELSE IF r.status = "spin"
    THEN VenueAndBook([vs EXCEPT !.status = "hung",
                                 !.released = Append(@, n)], r.book)
    ELSE process_pending_from(
             [vs EXCEPT !.released = Append(@, n),
                        !.book_trades = @ \o r.trades,
                        !.fills_sent = log_trades(@, r.trades)],
             r.book, now_mono_ns, idx + 1)

process_pending_from(vs, bk, now_mono_ns, idx) ==
    IF idx >= Len(vs.pending_orders) THEN delete_released(vs, bk, idx)
    ELSE IF vs.pending_orders[idx + 1].scheduled_ns > now_mono_ns
    THEN delete_released(vs, bk, idx)
    ELSE process_pending_added(vs, now_mono_ns, idx, vs.pending_orders[idx + 1].n,
                               add_order(bk, vs.pending_orders[idx + 1].order))

\* _process_pending_orders
process_pending_orders(vs, bk, now_mono_ns) ==
    process_pending_from(vs, bk, now_mono_ns, 0)

\* lines 73-86 and 96-108, 112-124: the random flow takes the next id and adds
\* an order; the trades add_order returns are dropped
rfg_added(vs, r) ==
    IF r.status = "spin"
    THEN VenueAndBook([vs EXCEPT !.status = "hung"], r.book)
    ELSE VenueAndBook([vs EXCEPT !.book_trades = @ \o r.trades], r.book)

rfg_add(vs, bk, side, type, price, qty, now_ns) ==
    rfg_added([vs EXCEPT !.next_order_id = @ + 1],
              add_order(bk, Order(vs.next_order_id, "BG_" \o EXCH_ID, side, type,
                                  price, qty, now_ns)))

\* lines 64-86: post is <<>> when random.random() >= order_prob, and else the
\* side, price and quantity drawn
rfg_post(vb, post, now_ns) ==
    IF post = <<>> THEN vb
    ELSE rfg_add(vb.venue, vb.book, post[1], "L", post[2], post[3], now_ns)

\* lines 93-124 for the target side and quantity drawn
rfg_cross_at(vb, target_side, bid, ask, qty, now_ns) ==
    IF target_side = "B" /\ bid # None
    THEN rfg_add(vb.venue, vb.book, "S", "M", bid[1], qty, now_ns)
    ELSE IF target_side = "S" /\ ask # None
    THEN rfg_add(vb.venue, vb.book, "B", "M", ask[1], qty, now_ns)
    ELSE vb

\* lines 89-124: cross is <<>> when random.random() >= cancel_prob, and else
\* the target side and the quantity drawn
rfg_cross(vb, cross, now_ns) ==
    IF cross = <<>> \/ vb.venue.status # "running" THEN vb
    ELSE rfg_cross_at(vb, cross[1], best_bid(vb.book), best_ask(vb.book),
                      cross[2], now_ns)

\* RandomOrderFlow.step.  mid_price is a random walk over the positive reals
\* that only the price drawn depends on; the price drawn stands for both.
rfg_step(vs, bk, post, cross, now_ns) ==
    rfg_cross(rfg_post(VenueAndBook(vs, bk), post, now_ns), cross, now_ns)

\* ------------------------------------------------------------------------
\* exchange_sim.py, the feed path
\*
\* The bid and ask of a tick count half price units (0.0025), so that the
\* mid of two book prices is a whole number: 0.25 is 100 and 0.5 is 200.
\* ------------------------------------------------------------------------

\* --base-price, 1.00, in price units
BasePrice == 200

\* ExchangeSimulator.__init__, the feed path: tick_interval_ns (from
\* --tick-hz), last_tick_ns (the clock at construction), synthetic_mid, seq
\* and the tick delay line.  History kept beside them: ticks_sent, the TICK
\* datagrams sent, and early, which says that a TICK was sent before its
\* scheduled time.
FeedInit(tick_interval_ns) ==
    [tick_interval_ns |-> tick_interval_ns, last_tick_ns |-> 0,
     synthetic_mid |-> 2 * BasePrice, seq |-> 0,
     pending_ticks |-> <<>>, ticks_sent |-> <<>>, early |-> FALSE]

\* "%.2f" of a tick price: the number of hundredths printed
FormatTick(price) == RoundHalfEven(price, 4)

\* the TICK datagram of _flush_pending_ticks, less its send timestamp
TICK(tick) ==
    [exch_id |-> EXCH_ID, symbol |-> SYMBOL, bid |-> FormatTick(tick.bid),
     ask |-> FormatTick(tick.ask), seq |-> tick.seq]

\* the missing side is put half a unit on the wrong side of the present one
tick_quote_inverted(bid, ask, synthetic_mid) ==
    IF bid = None /\ ask = None
    THEN <<synthetic_mid - 100, synthetic_mid + 100>>
    ELSE IF bid = None THEN <<2 * ask[1] + 200, 2 * ask[1]>>
    ELSE IF ask = None THEN <<2 * bid[1], 2 * bid[1] - 200>>
    ELSE <<2 * bid[1], 2 * ask[1]>>

\* lines 338-347: bid and ask are what best_bid() and best_ask() return, a
\* pair of price and quantity or None; a side that is missing is synthesized
tick_quote(bid, ask, synthetic_mid) ==
    IF bid = None /\ ask = None
    THEN <<synthetic_mid - 100, synthetic_mid + 100>>
    ELSE IF bid = None THEN <<2 * ask[1] - 200, 2 * ask[1]>>
    ELSE IF ask = None THEN <<2 * bid[1], 2 * bid[1] + 200>>
    ELSE <<2 * bid[1], 2 * ask[1]>>

\* insert(0, x) in place of append(x) on the tick delay line
ticks_insert_front(pending, entry) == <<entry>> \o pending

\* line 360: self._pending_ticks.append(...)
ticks_append(pending, entry) == Append(pending, entry)

\* lines 349-360 for the quote taken, jitter being the clamped sample
\* int(jitter)
enqueue_tick(fs, quote, now_mono_ns, jitter) ==
    [fs EXCEPT !.synthetic_mid = (quote[1] + quote[2]) \div 2,
               !.seq = @ + 1,
               !.pending_ticks =
                   ticks_append(@, [scheduled_ns |-> now_mono_ns + jitter,
                                    bid |-> quote[1], ask |-> quote[2],
                                    seq |-> fs.seq + 1])]

\* _publish_tick
publish_tick(fs, bk, now_mono_ns, jitter) ==
    enqueue_tick(fs, tick_quote(best_bid(bk), best_ask(bk), fs.synthetic_mid),
                 now_mono_ns, jitter)

\* lines 372-377: the datagram goes out, or the operating system refuses the
\* send (refused: the sequence numbers it refuses) and the OSError is caught
tick_sendto(fs, tick, now_mono_ns, refused) ==
    IF tick.seq \in refused THEN fs
    ELSE [fs EXCEPT !.ticks_sent = Append(@, TICK(tick)),
                    !.early = @ \/ tick.scheduled_ns > now_mono_ns]

\* every tick waits, whatever the time
tick_waits_for_ever(scheduled_ns, now_mono_ns) == TRUE

\* no tick waits for its scheduled time
tick_never_waits(scheduled_ns, now_mono_ns) == FALSE

\* line 369: if scheduled_ns > now_mono_ns: break
tick_waits(scheduled_ns, now_mono_ns) == scheduled_ns > now_mono_ns

\* the while loop of _flush_pending_ticks, idx entries done, and the del of
\* lines 379-380
RECURSIVE flush_from(_, _, _, _)
flush_from(fs, now_mono_ns, idx, refused) ==
    IF idx >= Len(fs.pending_ticks)
    THEN [fs EXCEPT !.pending_ticks = SubSeq(@, idx + 1, Len(@))]
    ELSE IF tick_waits(fs.pending_ticks[idx + 1].scheduled_ns, now_mono_ns)
    THEN [fs EXCEPT !.pending_ticks = SubSeq(@, idx + 1, Len(@))]
    ELSE flush_from(tick_sendto(fs, fs.pending_ticks[idx + 1], now_mono_ns,
                                refused),
                    now_mono_ns, idx + 1, refused)

\* _flush_pending_ticks
flush_pending_ticks(fs, now_mono_ns, refused) ==
    flush_from(fs, now_mono_ns, 0, refused)

\* line 212: a snapshot is due
tick_due(fs, now_mono_ns) ==
    now_mono_ns - fs.last_tick_ns >= fs.tick_interval_ns

\* steps 4 and 5 of the loop, lines 211-217
feed_steps(fs, bk, now_mono_ns, jitter, refused) ==
    flush_pending_ticks(
        IF tick_due(fs, now_mono_ns)
        THEN [publish_tick(fs, bk, now_mono_ns, jitter)
                 EXCEPT !.last_tick_ns = now_mono_ns]
        ELSE fs,
        now_mono_ns, refused)

\* ------------------------------------------------------------------------
\* trade_bridge.py
\*
\* The bridge's prices and quantities count half millionths; a decimal with
\* six places on the wire counts millionths.  Its float quotients are kept
\* as fractions <<numerator, denominator>>, the rounding of float arithmetic
\* aside.
\* ------------------------------------------------------------------------

ORDER_PORTS == [EXA |-> 9101, EXB |-> 9102]

CLIENT_ID == "PT"

\* "%.6f": the number of millionths printed, the nearest one
Format6(x) == RoundHalfEven(x, 2)

\* float() of a decimal with six places
Parse6(micros) == 2 * micros

\* a / b, a - b and a * k on fractions
Quot(a, b) == <<a, b>>

RatSub(a, b) == <<a[1] * b[2] - b[1] * a[2], a[2] * b[2]>>

RatScale(a, k) == <<a[1] * k, a[2]>>

RatEq(a, b) == a[1] * b[2] = b[1] * a[2]

LegState(exch, side, target_qty) ==
    [exch |-> exch, side |-> side, target_qty |-> target_qty,
     filled_qty |-> 0, weighted_price_sum |-> 0]

ArbState(arb_id, legA, legB) ==
    [arb_id |-> arb_id, legs |-> [A |-> legA, B |-> legB], closed |-> FALSE]

\* TradeBridge.__init__.  orders_sent lists the NEW datagrams sent, each with
\* the venue it went to; records lists the rows written to the arb log.
\* History kept beside them: nfill counts the FILL datagrams handled, late
\* says that the last datagram handled named an order of a closed arb, and
\* foreign, where the parties of the FILL datagrams are looked at, whether
\* the last FILL handled named no order the bridge had sent: "no", or "idle"
\* when the bridge had no order out then, or "out".
BridgeInit ==
    [status |-> "running", next_arb_id |-> 1, next_order_id |-> 1,
     order_to_arb |-> EmptyMap, arbs |-> EmptyMap,
     orders_sent |-> <<>>, records |-> <<>>,
     nfill |-> 0, late |-> FALSE, oserror |-> FALSE, foreign |-> "no"]

\* lines 207-213: the NEW datagram goes out and the order is mapped to its leg;
\* kept beside the datagram: the arb and the leg it was sent for
send_new(bs, exch, order_id, side_char, price, qty, arb_id, leg_key) ==
    [bs EXCEPT !.orders_sent =
                   Append(@, [exch |-> exch, client_id |-> CLIENT_ID,
                              order_id |-> order_id, side |-> side_char,
                              type |-> "L", price |-> Format6(price),
                              qty |-> Format6(qty),
                              arb_id |-> arb_id, leg_key |-> leg_key]),
               !.order_to_arb = Put(@, <<exch, order_id>>, <<arb_id, leg_key>>)]

\* the counter stays where it is
same_order_id(next_order_id) == next_order_id

\* line 196: self.next_order_id += 1
inc_order_id(next_order_id) == next_order_id + 1

\* lines 195-213 for a known venue: the order id is taken before the side is
\* looked at
send_leg_to(bs, arb_id, leg_key, exch, side, price, qty) ==
    IF side = "BUY"
    THEN send_new([bs EXCEPT !.next_order_id = inc_order_id(@)], exch, bs.next_order_id,
                  "B", price, qty, arb_id, leg_key)
    ELSE IF side = "SELL"
    THEN send_new([bs EXCEPT !.next_order_id = inc_order_id(@)], exch, bs.next_order_id,
                  "S", price, qty, arb_id, leg_key)
    ELSE [bs EXCEPT !.next_order_id = inc_order_id(@)]

\* every venue named has a port
any_venue(exch) == TRUE

\* lines 190-191: ORDER_PORTS.get(exch) is not None
known_venue(exch) == exch \in DOMAIN ORDER_PORTS

\* _send_leg_order
send_leg_order(bs, arb_id, leg_key, leg, price, qty) ==
    IF ~known_venue(Upper(leg.exch)) THEN bs
    ELSE send_leg_to(bs, arb_id, leg_key, Upper(leg.exch), Upper(leg.side),
                     price, qty)

\* lines 157-185 for the legs built
trade_legs(bs, arb_id, legA, legA_price, legB, legB_price, size) ==
    send_leg_order(
        send_leg_order([bs EXCEPT !.next_arb_id = @ + 1,
                                  !.arbs = Put(@, arb_id, ArbState(arb_id, legA, legB))],
                       arb_id, "A", legA, legA_price, size),
        arb_id, "B", legB, legB_price, size)

\* lines 208-211 when sendto raises OSError: _send_leg_order,
\* handle_trade_msg and run() have no handler for it, so it leaves run(); the
\* mapping of line 213 is not written
send_new_raises(bs) == [bs EXCEPT !.status = "crashed", !.oserror = TRUE]

\* _send_leg_order when the send, if the call gets to it, fails
send_leg_order_failing(bs, arb_id, leg_key, leg, price, qty) ==
    IF ~known_venue(Upper(leg.exch)) THEN bs
    ELSE IF Upper(leg.side) \notin {"BUY", "SELL"}
    THEN [bs EXCEPT !.next_order_id = @ + 1]
    ELSE send_new_raises([bs EXCEPT !.next_order_id = @ + 1])

\* line 185 after line 184: not reached when line 184 raised
send_leg_B(bs, arb_id, legB, legB_price, size) ==
    IF bs.status # "running" THEN bs
    ELSE send_leg_order(bs, arb_id, "B", legB, legB_price, size)

\* lines 157-185 when the send of the leg `failing` fails
trade_legs_failing(bs, arb_id, legA, legA_price, legB, legB_price, size, failing) ==
    IF failing = "A"
    THEN send_leg_B(
             send_leg_order_failing(
                 [bs EXCEPT !.next_arb_id = @ + 1,
                            !.arbs = Put(@, arb_id, ArbState(arb_id, legA, legB))],
                 arb_id, "A", legA, legA_price, size),
             arb_id, legB, legB_price, size)
    ELSE send_leg_order_failing(
             send_leg_order(
                 [bs EXCEPT !.next_arb_id = @ + 1,
                            !.arbs = Put(@, arb_id, ArbState(arb_id, legA, legB))],
                 arb_id, "A", legA, legA_price, size),
             arb_id, "B", legB, legB_price, size)

\* handle_trade_msg for a datagram of eleven tokens whose numbers parse
handle_trade_msg(bs, msg) ==
    trade_legs(bs, bs.next_arb_id,
               LegState(msg.legA_exch, msg.legA_side, msg.size), msg.legA_price,
               LegState(msg.legB_exch, msg.legB_side, msg.size), msg.legB_price,
               msg.size)

\* the arb log row of lines 327-335, less its timestamp
ArbRecord(arb_id, size, buy_px, sell_px, spread_realized) ==
    [arb_id |-> arb_id, size |-> size, buy_px |-> buy_px, sell_px |-> sell_px,
     spread_realized |-> spread_realized,
     pnl |-> RatScale(spread_realized, size)]

\* lines 312-336
close_arb(bs, arb_id, size, buy_px, sell_px) ==
    [bs EXCEPT !.arbs[arb_id].closed = TRUE,
               !.records = Append(@, ArbRecord(arb_id, size, buy_px, sell_px,
                                               RatSub(sell_px, buy_px)))]

\* the leg that is not the buy leg in place of the buy leg
legA_sells(legA) == Upper(legA.side) # "BUY"

\* line 307
legA_buys(legA) == Upper(legA.side) = "BUY"

\* lines 303-310 for the two averages
buy_and_sell(bs, arb_id, legA, legB, avgA, avgB) ==
    IF legA_buys(legA)
    THEN close_arb(bs, arb_id, Min(legA.filled_qty, legB.filled_qty), avgA, avgB)
    ELSE close_arb(bs, arb_id, Min(legA.filled_qty, legB.filled_qty), avgB, avgA)

\* lines 298-336.  A quantity is a whole number of units, so that
\* filled + 1e-9 < target is filled < target.  A leg with nothing filled
\* makes line 303 or 304 raise ZeroDivisionError, which leaves run().
finalize_legs(bs, arb_id, legA, legB) ==
    IF legA.filled_qty < legA.target_qty THEN bs
    ELSE IF legB.filled_qty < legB.target_qty THEN bs
    ELSE IF legA.filled_qty = 0 \/ legB.filled_qty = 0
    THEN [bs EXCEPT !.status = "crashed"]
    ELSE buy_and_sell(bs, arb_id, legA, legB,
                      Quot(legA.weighted_price_sum, legA.filled_qty),
                      Quot(legB.weighted_price_sum, legB.filled_qty))

\* an arb is never taken as closed
arb_never_closed(arb) == FALSE

\* arb.closed of lines 271 and 291
arb_closed(arb) == arb.closed

\* _maybe_finalize_arb
maybe_finalize_arb(bs, arb_id) ==
    IF arb_id \notin DOMAIN bs.arbs THEN bs
    ELSE IF arb_closed(bs.arbs[arb_id]) THEN bs
    ELSE finalize_legs(bs, arb_id, bs.arbs[arb_id].legs.A, bs.arbs[arb_id].legs.B)

\* lines 269-287 for the leg the order is mapped to
fill_leg(bs, arb_id, leg_key, price, qty) ==
    IF arb_id \notin DOMAIN bs.arbs THEN bs
    ELSE IF arb_closed(bs.arbs[arb_id]) THEN [bs EXCEPT !.late = TRUE]
    ELSE maybe_finalize_arb(
             [bs EXCEPT !.arbs[arb_id].legs[leg_key].filled_qty = @ + qty,
                        !.arbs[arb_id].legs[leg_key].weighted_price_sum =
                            @ + price * qty],
             arb_id)

\* lines 263-287 for one candidate
fill_candidate(bs, key, price, qty) ==
    IF key \notin DOMAIN bs.order_to_arb THEN bs
    ELSE fill_leg(bs, bs.order_to_arb[key][1], bs.order_to_arb[key][2], price, qty)

\* the order ids of both parties, whoever the clients are
fill_candidates_of_anyone(msg) == <<msg.taker_oid, msg.maker_oid>>

\* lines 253-257
fill_candidates(msg) ==
    (IF msg.taker_client = CLIENT_ID THEN <<msg.taker_oid>> ELSE <<>>)
    \o (IF msg.maker_client = CLIENT_ID THEN <<msg.maker_oid>> ELSE <<>>)

\* the loop ends after its first candidate
fill_first(bs, exch_id, price, qty, candidates) ==
    IF candidates = <<>> THEN bs
    ELSE fill_candidate(bs, <<exch_id, Head(candidates)>>, price, qty)

\* the for loop of lines 262-287; an exception ends it
RECURSIVE fill_each(_, _, _, _, _)
fill_each(bs, exch_id, price, qty, candidates) ==
    IF candidates = <<>> \/ bs.status # "running" THEN bs
    ELSE fill_each(fill_candidate(bs, <<exch_id, Head(candidates)>>, price, qty),
                   exch_id, price, qty, Tail(candidates))

\* lines 259-267 skip every candidate: the FILL names the bridge's client in
\* no role, or names it with order ids order_to_arb does not hold for the
\* venue
names_no_order(bs, msg) ==
    /\ msg.taker_client = CLIENT_ID
           => <<Upper(msg.exch_id), msg.taker_oid>> \notin DOMAIN bs.order_to_arb
    /\ msg.maker_client = CLIENT_ID
           => <<Upper(msg.exch_id), msg.maker_oid>> \notin DOMAIN bs.order_to_arb

\* handle_fill_msg for a datagram of ten tokens whose numbers parse
handle_fill_msg(bs, msg) ==
    fill_each([bs EXCEPT !.late = FALSE, !.nfill = @ + 1],
              Upper(msg.exch_id), Parse6(msg.price), Parse6(msg.qty),
              fill_candidates(msg))

\* ------------------------------------------------------------------------
\* State


\* ------------------------------------------------------------------------

VARIABLES
    book,   \* the OrderBook
    last,   \* the last call on the book: what was passed, what it returned,
            \* and the book as it was before the call
    venue,  \* the ExchangeSimulator that owns the book
    bridge, \* the TradeBridge
    feed,   \* the ExchangeSimulator's feed path
    wire    \* the datagrams taken from the sockets as text: how many so far,
            \* and which socket the last one came from and its tokens

vars == <<book, last, venue, bridge, feed, wire>>

NoWire == [n |-> 0, to |-> "none", parts |-> <<>>]

NoOrder == Order(0, "", "", "", 0, 0, 0)

NoCall ==
    [op |-> "none", order |-> NoOrder, order_id |-> 0, status |-> "ok",
     trades |-> <<>>, makers |-> <<>>, objs |-> EmptyMap, ok |-> FALSE,
     pre |-> EmptyBook]

\* ------------------------------------------------------------------------
\* The book driven directly by its callers
\* ------------------------------------------------------------------------

OrderIds == {1, 2}

ClientIds == {"PT"}

\* client prices: 200 and 202 are on the tick grid; 201 is half way between
\* them and rounds to 200, 203 is half way and rounds to 204
RawPrices == {200, 201, 202, 203}

Qtys == {1, 2}

BookTs == {0}

\* what callers pass: limit orders over the sets above, market orders (whose
\* price the book ignores), orders of zero and of negative quantity, and
\* orders whose side or kind is not a valid code
BookOrders ==
    {Order(i, c, s, "L", p, q, ts) :
        i \in OrderIds, c \in ClientIds, s \in {"B", "S"},
        p \in RawPrices, q \in Qtys, ts \in BookTs}
    \cup {Order(i, c, s, "M", 0, q, ts) :
        i \in OrderIds, c \in ClientIds, s \in {"B", "S"},
        q \in Qtys, ts \in BookTs}
    \cup {Order(i, "PT", s, t, 202, q, 0) :
        i \in OrderIds, s \in {"B", "S"}, t \in {"L", "M"}, q \in {0, -1}}
    \cup {Order(i, "PT", "X", "L", 200, 1, 0) : i \in OrderIds}
    \cup {Order(i, "PT", "B", "Q", 200, 1, 0) : i \in OrderIds}

BookInit ==
    /\ book = EmptyBook
    /\ last = NoCall
    /\ venue = VenueInit
    /\ bridge = BridgeInit
    /\ feed = FeedInit(1)
    /\ wire = NoWire

\* what a call of add_order leaves behind
Called(r, pre) ==
    [op |-> "add", order |-> r.order, order_id |-> r.order.order_id,
     status |-> r.status, trades |-> r.trades, makers |-> r.makers,
     objs |-> r.objs, ok |-> FALSE, pre |-> pre]

AddOrderResult(r) ==
    /\ r.book.nadd <= MaxRest
    /\ book' = r.book
    /\ last' = Called(r, book)
    /\ UNCHANGED <<wire, feed, venue, bridge>>

\* a caller constructs an Order and calls add_order
AddOrder(o) ==
    /\ last.op = "none"
    /\ AddOrderResult(add_order(book, o))

CancelOrderResult(r, id) ==
    /\ book' = r.book
    /\ last' = [op |-> "cancel", order |-> NoOrder, order_id |-> id,
                status |-> "ok", trades |-> <<>>, makers |-> <<>>,
                objs |-> EmptyMap, ok |-> r.ok, pre |-> book]
    /\ UNCHANGED <<wire, feed, venue, bridge>>

\* a caller calls cancel_order
CancelOrder(id) ==
    /\ last.op = "none"
    /\ CancelOrderResult(cancel_order(book, id), id)

\* the caller takes the value returned and goes on
Return ==
    /\ last.op # "none"
    /\ last' = NoCall
    /\ UNCHANGED <<wire, feed, book, venue, bridge>>

BookNext ==
    \/ \E o \in BookOrders : AddOrder(o)
    \/ \E id \in OrderIds : CancelOrder(id)
    \/ Return

SpecBook == BookInit /\ [][BookNext]_vars

AddThenCancelResult(a, c) ==
    /\ a.book.nadd <= MaxRest
    /\ book' = c.book
    /\ last' = [Called(a, book) EXCEPT !.op = "roundtrip", !.ok = c.ok]
    /\ UNCHANGED <<wire, feed, venue, bridge>>

AddThenCancelAdded(a) ==
    AddThenCancelResult(a, cancel_order(a.book, a.order.order_id))

\* a caller adds an order and cancels it by its id straight away: add_order
\* followed by cancel_order, with nothing in between
AddThenCancel(o) ==
    /\ last.op = "none"
    /\ AddThenCancelAdded(add_order(book, o))

AddedAndReturned(r) ==
    /\ r.book.nadd <= MaxRest
    /\ book' = r.book
    /\ UNCHANGED <<wire, feed, last, venue, bridge>>

\* add_order and cancel_order with the returned value taken at once
AddOrderAndReturn(o) ==
    /\ last.op = "none"
    /\ AddedAndReturned(add_order(book, o))

CancelOrderAndReturn(id) ==
    /\ last.op = "none"
    /\ book' = cancel_order(book, id).book
    /\ UNCHANGED <<wire, feed, last, venue, bridge>>

RoundTripNext ==
    \/ \E o \in BookOrders : AddOrderAndReturn(o)
    \/ \E id \in OrderIds : CancelOrderAndReturn(id)
    \/ \E o \in BookOrders : AddThenCancel(o)
    \/ Return

SpecRoundTrip == BookInit /\ [][RoundTripNext]_vars

\* ------------------------------------------------------------------------
\* The venue: run() of ExchangeSimulator, the order path
\* ------------------------------------------------------------------------

\* how many NEW datagrams a venue takes in during one run
MaxMsgs == 2

\* how many orders the random flow makes during one run
MaxRfg == 1

\* the last reading of the monotonic clock a run gets to
MaxClock == 1

\* the latency samples int(jitter) drawn, clamped at zero
Jitters == {0, 1}

VenueOrderIds == {1, 2}

\* the NEW datagrams that arrive: a buy limit of the trading client, a sell
\* limit with its codes in lower case and a price off the tick grid that
\* rounds onto the buy's, and an order whose side is no side
NewMessages ==
    {[client_id |-> "PT", order_id |-> 1, side |-> "B", type |-> "L",
      price |-> 200, qty |-> MinQty],
     [client_id |-> "PT", order_id |-> 2, side |-> "s", type |-> "l",
      price |-> 201, qty |-> MinQty + 1],
     [client_id |-> "PT", order_id |-> 2, side |-> "X", type |-> "L",
      price |-> 200, qty |-> MinQty]}

\* what the random flow draws: a side, a price and a quantity for the order
\* it posts, a target side and a quantity for the order that crosses
RfgPosts ==
    {<<>>, <<"S", 200, MinQty + 1>>, <<"B", 203, MinQty + 1>>}

RfgCrosses ==
    {<<>>} \cup {<<sd, q>> : sd \in {"B", "S"}, q \in {MinQty}}

Running == venue.status = "running"

\* line 200 and _process_client_messages when select times out: no datagram
PollNothing(now) ==
    /\ Running /\ venue.pc = "poll"
    /\ venue' = [venue EXCEPT !.pc = "release", !.now_mono_ns = now, !.mono = now]
    /\ UNCHANGED <<wire, feed, book, last, bridge>>

\* a datagram that is not a NEW of seven tokens or a CXL of three, or whose
\* numbers do not parse: _handle_client_message prints and returns
RecvBad(now) ==
    /\ Running /\ venue.pc = "poll"
    /\ venue' = [venue EXCEPT !.pc = "release", !.now_mono_ns = now, !.mono = now]
    /\ UNCHANGED <<wire, feed, book, last, bridge>>

\* a NEW datagram: the handler reads the clock again (t) and schedules the
\* order
RecvNew(now, t, msg, jitter) ==
    /\ Running /\ venue.pc = "poll"
    /\ venue.nrecv < MaxMsgs
    /\ venue' = schedule_order(
                    [venue EXCEPT !.pc = "release", !.now_mono_ns = now, !.mono = t],
                    Order(msg.order_id, msg.client_id, Upper(msg.side),
                          Upper(msg.type), msg.price, msg.qty, t),
                    t, jitter)
    /\ UNCHANGED <<wire, feed, book, last, bridge>>

\* a CXL datagram: cancel_order by the order id, whoever the client is
RecvCxl(now, id) ==
    /\ Running /\ venue.pc = "poll"
    /\ venue' = [venue EXCEPT !.pc = "release", !.now_mono_ns = now, !.mono = now]
    /\ book' = cancel_order(book, id).book
    /\ UNCHANGED <<wire, feed, last, bridge>>

VenueStep(vb, pc) ==
    /\ vb.book.nadd <= MaxRest
    /\ vb.venue.next_order_id - RfgFirstId <= MaxRfg
    /\ venue' = [vb.venue EXCEPT !.pc = IF vb.venue.status = "running" THEN pc ELSE @]
    /\ book' = vb.book
    /\ UNCHANGED <<wire, feed, last, bridge>>

\* step 2 of the loop: _process_pending_orders(now_mono_ns)
Release ==
    /\ Running /\ venue.pc = "release"
    /\ VenueStep(process_pending_orders(venue, book, venue.now_mono_ns), "step")

\* step 3 of the loop: rand_flow.step(now_mono_ns)
Step(post, cross) ==
    /\ Running /\ venue.pc = "step"
    /\ VenueStep(rfg_step(venue, book, post, cross, venue.now_mono_ns), "feed")

\* steps 4 and 5 of the loop, _publish_tick and _flush_pending_ticks: they
\* read the book and write last_tick_ns, synthetic_mid, seq and
\* _pending_ticks, none of which the order path reads
Feed ==
    /\ Running /\ venue.pc = "feed"
    /\ venue' = [venue EXCEPT !.pc = "poll"]
    /\ UNCHANGED <<wire, feed, book, last, bridge>>

VenueNext ==
    \/ \E now \in venue.mono..MaxClock : PollNothing(now)
    \/ \E now \in venue.mono..MaxClock : RecvBad(now)
    \/ \E now \in venue.mono..MaxClock : \E t \in now..MaxClock :
           \E msg \in NewMessages : \E jitter \in Jitters :
               RecvNew(now, t, msg, jitter)
    \/ \E now \in venue.mono..MaxClock : \E id \in VenueOrderIds : RecvCxl(now, id)
    \/ Release
    \/ \E post \in RfgPosts : \E cross \in RfgCrosses : Step(post, cross)
    \/ Feed

SpecVenue == BookInit /\ [][VenueNext]_vars

\* ------------------------------------------------------------------------
\* The venue: run() of ExchangeSimulator, the feed path
\* ------------------------------------------------------------------------

\* how many snapshots a venue takes during one run
MaxTicks == 3

\* the last reading of the monotonic clock a run with the feed gets to
MaxFeedClock == 2

\* tick_interval_ns = int(1e9 / tick_hz) for the --tick-hz given
TickIntervals == {0, 1}

FeedStart ==
    /\ book = EmptyBook
    /\ last = NoCall
    /\ venue = VenueInit
    /\ bridge = BridgeInit
    /\ feed \in {FeedInit(i) : i \in TickIntervals}
    /\ wire = NoWire

\* how many orders the random flow makes during one run with the feed
MaxFeedFlow == 2

FlowResult(vb) ==
    /\ vb.book.nadd <= MaxRest
    /\ vb.venue.next_order_id - RfgFirstId <= MaxFeedFlow
    /\ venue' = [vb.venue EXCEPT !.pc = IF vb.venue.status = "running" THEN "feed" ELSE @]
    /\ book' = vb.book
    /\ UNCHANGED <<wire, feed, last, bridge>>

\* steps 4 and 5 of the loop: _publish_tick when a snapshot is due, and
\* _flush_pending_ticks
FeedTick(jitter, refused) ==
    /\ Running /\ venue.pc = "feed"
    /\ tick_due(feed, venue.now_mono_ns) => feed.seq < MaxTicks
    /\ feed' = feed_steps(feed, book, venue.now_mono_ns, jitter, refused)
    /\ venue' = [venue EXCEPT !.pc = "poll"]
    /\ UNCHANGED <<wire, book, last, bridge>>

\* what the random flow draws in these runs: a bid and an ask that can rest
\* together
FeedPosts ==
    {<<>>, <<"S", 204, MinQty + 1>>, <<"B", 200, MinQty + 1>>}

\* step 3 of the loop: rand_flow.step(now_mono_ns)
FeedFlow(post, cross) ==
    /\ Running /\ venue.pc = "step"
    /\ FlowResult(rfg_step(venue, book, post, cross, venue.now_mono_ns))

FeedNext ==
    \/ \E now \in venue.mono..MaxFeedClock : PollNothing(now)
    \/ Release
    \/ \E post \in FeedPosts : \E cross \in RfgCrosses : FeedFlow(post, cross)
    \/ \E jitter \in Jitters : \E refused \in SUBSET (1..MaxTicks) :
           FeedTick(jitter, refused)

SpecFeed == FeedStart /\ [][FeedNext]_vars

\* The loop with both delay lines: client orders come in, the random flow
\* draws nothing, snapshots are taken, and both lines are emptied as the
\* clock goes
DelayNext ==
    \/ \E now \in venue.mono..MaxFeedClock : PollNothing(now)
    \/ \E now \in venue.mono..MaxFeedClock : \E t \in now..MaxFeedClock :
           \E msg \in NewMessages : \E jitter \in Jitters :
               RecvNew(now, t, msg, jitter)
    \/ Release
    \/ Step(<<>>, <<>>)
    \/ \E jitter \in Jitters : \E refused \in SUBSET (1..MaxTicks) :
           FeedTick(jitter, refused)

SpecDelay == BookInit /\ [][DelayNext]_vars

\* the monotonic clock goes on
ClockAdvances ==
    \E now \in (venue.mono + 1)..MaxFeedClock : PollNothing(now)

\* in these runs the release step is never held back by a bound of the run
ReleaseGoesThrough ==
    (Running /\ venue.pc = "release")
        => process_pending_orders(venue, book, venue.now_mono_ns).book.nadd <= MaxRest

\* weak fairness of Release, written without its enabling condition, which
\* in these runs is that the loop is at the release step (ReleaseGoesThrough):
\* the step comes to its end, or the process is no longer running
ReleaseEnds == []<>(~(Running /\ venue.pc = "release"))

\* weak fairness of FeedTick, written with its enabling condition, the guard
\* of the action: the step comes to its end, or the process is no longer
\* running
FeedEnds ==
    []<>(~(/\ Running /\ venue.pc = "feed"
           /\ tick_due(feed, venue.now_mono_ns) => feed.seq < MaxTicks))

\* the loop keeps iterating, each of its steps coming to its end whatever
\* arrives and whatever is drawn, and its clock keeps advancing as far as the
\* clock of a run goes
SpecDelayFair ==
    /\ BookInit /\ [][DelayNext]_vars
    /\ WF_vars(PollNothing(venue.mono))
    /\ ReleaseEnds
    /\ WF_vars(Step(<<>>, <<>>))
    /\ FeedEnds
    /\ SF_vars(ClockAdvances)

\* ------------------------------------------------------------------------
\* The bridge: run() of TradeBridge
\* ------------------------------------------------------------------------

\* how many arbs a bridge opens during one run
MaxArbs == 1

\* how many FILL datagrams a bridge handles during one run
MaxFills == 3

\* the TRADE datagrams that arrive: the venues and sides of the two legs (one
\* leg in lower case, one with a side that is no side, one at a venue the
\* bridge does not know, one with both) and the size
TradeLegs ==
    {<<"EXA", "BUY", "EXB", "SELL">>, <<"EXA", "SELL", "EXB", "BUY">>,
     <<"EXA", "BUY", "EXB", "BUY">>, <<"EXA", "SELL", "EXA", "SELL">>,
     <<"exa", "buy", "EXB", "SELL">>, <<"EXA", "HOLD", "EXB", "SELL">>,
     <<"EXA", "BUY", "EXC", "SELL">>, <<"EXC", "BUY", "EXB", "HOLD">>}

TradeSizes == {0, 2, 3}

TradeMessages ==
    {[legA_exch |-> l[1], legA_side |-> l[2], legA_price |-> 200,
      legB_exch |-> l[3], legB_side |-> l[4], legB_price |-> 203,
      size |-> sz] : l \in TradeLegs, sz \in TradeSizes}

\* the FILL datagrams that arrive, from the venues or from anyone else: the
\* venue, and the client and order id of the taker and of the maker
FillParties ==
    {<<"EXA", "PT", 1, "BG_EXA", RfgFirstId>>,
     <<"exb", "BG_EXB", RfgFirstId, "PT", 2>>,
     <<"EXA", "PT", 2, "PT", 1>>,
     <<"EXA", "PT", 3, "BG_EXA", RfgFirstId>>,
     <<"EXA", "BG_EXA", RfgFirstId, "BG_EXA", RfgFirstId + 1>>}

FillMessages ==
    {[exch_id |-> pt[1], symbol |-> SYMBOL, price |-> p, qty |-> q,
      taker_client |-> pt[2], taker_oid |-> pt[3],
      maker_client |-> pt[4], maker_oid |-> pt[5]] :
        p \in {100, 101}, q \in {1, 2}, pt \in FillParties}

BridgeRunning == bridge.status = "running"

\* a TRADE datagram of eleven tokens whose numbers parse
HandleTrade(msg) ==
    /\ BridgeRunning
    /\ bridge.next_arb_id <= MaxArbs
    /\ bridge' = handle_trade_msg(bridge, msg)
    /\ UNCHANGED <<wire, feed, book, last, venue>>

SendFailed(bs) ==
    /\ bs.oserror
    /\ bridge' = bs
    /\ UNCHANGED <<wire, feed, book, last, venue>>

\* a TRADE datagram during whose handling the operating system refuses the
\* send of the NEW of one leg
HandleTradeSendFails(msg, failing) ==
    /\ BridgeRunning
    /\ bridge.next_arb_id <= MaxArbs
    /\ SendFailed(trade_legs_failing(
                      bridge, bridge.next_arb_id,
                      LegState(msg.legA_exch, msg.legA_side, msg.size), msg.legA_price,
                      LegState(msg.legB_exch, msg.legB_side, msg.size), msg.legB_price,
                      msg.size, failing))

\* a datagram on the TRADE socket that is not eleven tokens starting with
\* TRADE, or whose numbers do not parse: printed and dropped
BadTrade ==
    /\ BridgeRunning
    /\ UNCHANGED vars

\* a FILL datagram of ten tokens whose numbers parse
HandleFill(msg) ==
    /\ BridgeRunning
    /\ bridge.nfill < MaxFills
    /\ bridge' = handle_fill_msg(bridge, msg)
    /\ UNCHANGED <<wire, feed, book, last, venue>>

\* a datagram on the FILL socket that is not ten tokens starting with FILL,
\* or whose numbers do not parse: printed and dropped
BadFill ==
    /\ BridgeRunning
    /\ UNCHANGED vars

BridgeNext ==
    \/ \E msg \in TradeMessages : HandleTrade(msg)
    \/ \E msg \in TradeMessages : \E failing \in {"A", "B"} :
           HandleTradeSendFails(msg, failing)
    \/ BadTrade
    \/ \E msg \in FillMessages : HandleFill(msg)
    \/ BadFill

SpecBridge == BookInit /\ [][BridgeNext]_vars

\* The bridge and the parties of a FILL: the TRADE datagrams of two venues
\* and of one, with and without a size
RoleTradeMessages ==
    {msg \in TradeMessages :
        <<msg.legA_exch, msg.legA_side, msg.legB_exch, msg.legB_side>>
            \in {<<"EXA", "BUY", "EXB", "SELL">>, <<"EXA", "SELL", "EXA", "SELL">>}}

\* the FILL datagrams whose parties are the bridge in one role, in both with
\* two orders and with one, in one with an order id it has not sent or has
\* sent to the other venue, and in none with an order id it has sent
RoleFillParties ==
    {<<"EXB", "BG_EXB", RfgFirstId, "PT", 2>>,
     <<"EXA", "PT", 2, "PT", 1>>,
     <<"EXA", "PT", 1, "PT", 1>>,
     <<"EXA", "PT", 3, "BG_EXA", RfgFirstId>>,
     <<"EXB", "PT", 1, "BG_EXB", RfgFirstId>>,
     <<"EXA", "BG_EXA", 1, "BG_EXA", RfgFirstId>>}

RoleFillMessages ==
    {[exch_id |-> pt[1], symbol |-> SYMBOL, price |-> p, qty |-> q,
      taker_client |-> pt[2], taker_oid |-> pt[3],
      maker_client |-> pt[4], maker_oid |-> pt[5]] :
        p \in {100, 101}, q \in {1, 2}, pt \in RoleFillParties}

\* a FILL datagram of ten tokens whose numbers parse; kept beside what
\* handle_fill_msg does: whether the datagram named an order of the bridge's
HandleRoleFill(msg) ==
    /\ BridgeRunning
    /\ bridge.nfill < MaxFills
    /\ bridge' = [handle_fill_msg(bridge, msg) EXCEPT
                      !.foreign = IF ~names_no_order(bridge, msg) THEN "no"
                                  ELSE IF bridge.order_to_arb = EmptyMap
                                  THEN "idle" ELSE "out"]
    /\ UNCHANGED <<wire, feed, book, last, venue>>

RolesNext ==
    \/ \E msg \in RoleTradeMessages : HandleTrade(msg)
    \/ \E msg \in RoleFillMessages : HandleRoleFill(msg)

SpecRoles == BookInit /\ [][RolesNext]_vars

\* ------------------------------------------------------------------------
\* Datagrams as text: msg.split(), int() and float()
\* ------------------------------------------------------------------------

\* float('nan')
NaN == "nan"

\* the tokens int() takes, and what it returns
IntTokens == {"1", "2", "1000000000"}

int(token) ==
    IF token = "1" THEN 1 ELSE IF token = "2" THEN 2 ELSE RfgFirstId

\* the tokens float() takes: decimals, and nan; of a decimal the number of
\* millionths it stands for
FloatTokens == {"1", "2", "1.00", "0.01", "0.0001", "0.000001", "0.0", "nan"}

Millionths(token) ==
    CASE token = "1" -> 1000000 [] token = "2" -> 2000000
      [] token = "1.00" -> 1000000 [] token = "0.01" -> 10000
      [] token = "0.0001" -> 100 [] token = "0.000001" -> 1
      [] token = "0.0" -> 0

\* float() of a price of the venue, in price units, and of a quantity
float_price(token) ==
    IF token = "nan" THEN NaN ELSE Millionths(token) \div PriceUnitMicros

float_qty(token) ==
    IF token = "nan" THEN NaN ELSE Parse6(Millionths(token))

\* a CXL cancels an order of the client it names and no other
cxl_of_owner(bk, client_id, client_order_id) ==
    IF client_order_id \notin DOMAIN bk.order_index THEN bk
    ELSE IF bk.orders[bk.order_index[client_order_id]].client_id # client_id
    THEN bk
    ELSE cancel_order(bk, client_order_id).book

\* lines 304-309: client_id goes to the message printed when cancel_order
\* returns False, and nowhere else
cxl(bk, client_id, client_order_id) == cancel_order(bk, client_order_id).book

\* _handle_client_message for the tokens of a datagram: lines 267-313; the
\* ValueError of int() and float() is caught at line 312
handle_client_message(vs, bk, parts, now_mono_ns, jitter) ==
    IF parts = <<>> THEN VenueAndBook(vs, bk)
    ELSE IF parts[1] = "NEW"
    THEN IF Len(parts) # 7 THEN VenueAndBook(vs, bk)
         ELSE IF parts[3] \notin IntTokens \/ parts[6] \notin FloatTokens
                 \/ parts[7] \notin FloatTokens
         THEN VenueAndBook(vs, bk)
         ELSE VenueAndBook(
                  schedule_order(vs,
                      Order(int(parts[3]), parts[2], Upper(parts[4]),
                            Upper(parts[5]), float_price(parts[6]),
                            float_qty(parts[7]), now_mono_ns),
                      now_mono_ns, jitter),
                  bk)
    ELSE IF parts[1] = "CXL"
    THEN IF Len(parts) # 3 THEN VenueAndBook(vs, bk)
         ELSE IF parts[3] \notin IntTokens THEN VenueAndBook(vs, bk)
         ELSE VenueAndBook(vs, cxl(bk, parts[2], int(parts[3])))
    ELSE VenueAndBook(vs, bk)

\* handle_trade_msg for the tokens of a datagram: lines 129-155, then the
\* rest of it; strategy id, spread and timestamp go nowhere
handle_trade_parts(bs, parts) ==
    IF Len(parts) # 11 THEN bs
    ELSE IF parts[1] # "TRADE" THEN bs
    ELSE IF \E i \in {5, 8, 9, 10} : parts[i] \notin FloatTokens THEN bs
    ELSE handle_trade_msg(bs,
             [legA_exch |-> parts[3], legA_side |-> parts[4],
              legA_price |-> float_qty(parts[5]),
              legB_exch |-> parts[6], legB_side |-> parts[7],
              legB_price |-> float_qty(parts[8]),
              size |-> float_qty(parts[9])])

\* handle_fill_msg for the tokens of a datagram: lines 221-248, then the
\* rest of it; the timestamp goes nowhere
handle_fill_parts(bs, parts) ==
    IF Len(parts) # 10 THEN bs
    ELSE IF parts[1] # "FILL" THEN bs
    ELSE IF parts[4] \notin FloatTokens \/ parts[5] \notin FloatTokens
            \/ parts[7] \notin IntTokens \/ parts[9] \notin IntTokens
    THEN bs
    ELSE handle_fill_msg(bs,
             [exch_id |-> parts[2], symbol |-> parts[3],
              price |-> Millionths(parts[4]), qty |-> Millionths(parts[5]),
              taker_client |-> parts[6], taker_oid |-> int(parts[7]),
              maker_client |-> parts[8], maker_oid |-> int(parts[9])])

\* how many datagrams are taken from the sockets as text during one run
MaxWire == 2

\* the latency samples of the orders taken as text: the clock of these runs
\* stays before the scheduled times, and what is on the delay line stays
WireJitters == {1}

\* the datagrams that arrive at the venue: NEW with an id, a price and a
\* quantity that are numbers or not, with a token missing and with one too
\* many; CXL likewise; a command the venue does not know; nothing at all
DatagramsToVenue ==
    {<<"NEW", "PT", id, "B", "L", price, qty>> :
        id \in {"1", "x"}, price \in {"1.00", "nan", "x"}, qty \in {"0.01", "x"}}
    \cup {<<"NEW", "PT", "1", "B", "L", "1.00">>,
          <<"NEW", "PT", "1", "B", "L", "1.00", "0.01", "0">>,
          <<"CXL", "PT", "1">>, <<"CXL", "PT", "x">>, <<"CXL", "PT">>,
          <<"CXL", "PT", "1", "1">>, <<"MOD", "PT", "1">>, <<>>}

\* a TRADE datagram of eleven tokens
TradeTokens(legA_price, legB_price, size, spread, ts_ns) ==
    <<"TRADE", "s1", "EXA", "BUY", legA_price, "EXB", "SELL", legB_price,
      size, spread, ts_ns>>

\* the datagrams that arrive at the TRADE socket: one whose numbers are
\* numbers, the same with each number in turn replaced by a word, with a
\* token missing and with one too many
DatagramsToTrade ==
    {TradeTokens("0.0001", "0.0001", "0.000001", "0.0", "1"),
     TradeTokens("x", "0.0001", "0.000001", "0.0", "1"),
     TradeTokens("0.0001", "x", "0.000001", "0.0", "1"),
     TradeTokens("0.0001", "0.0001", "x", "0.0", "1"),
     TradeTokens("0.0001", "0.0001", "0.000001", "x", "1"),
     TradeTokens("0.0001", "0.0001", "0.000001", "0.0", "x"),
     <<"TRADE", "s1", "EXA", "BUY", "0.0001", "EXB", "SELL", "0.0001",
       "0.000001", "0.0">>,
     <<"TRADE", "s1", "EXA", "BUY", "0.0001", "EXB", "SELL", "0.0001",
       "0.000001", "0.0", "1", "1">>}

\* a FILL datagram of ten tokens
FillTokens(price, qty, taker_oid, maker_oid, ts_ns) ==
    <<"FILL", "EXA", SYMBOL, price, qty, "PT", taker_oid, "BG_EXA", maker_oid,
      ts_ns>>

\* the datagrams that arrive at the FILL socket, likewise
DatagramsToFill ==
    {FillTokens("0.0001", "0.000001", "1", "2", "1"),
     FillTokens("x", "0.000001", "1", "2", "1"),
     FillTokens("0.0001", "x", "1", "2", "1"),
     FillTokens("0.0001", "0.000001", "x", "2", "1"),
     FillTokens("0.0001", "0.000001", "1", "x", "1"),
     FillTokens("0.0001", "0.000001", "1", "2", "x"),
     <<"FILL", "EXA", SYMBOL, "0.0001", "0.000001", "PT", "1", "BG_EXA", "2">>,
     <<"FILL", "EXA", SYMBOL, "0.0001", "0.000001", "PT", "1", "BG_EXA", "2",
       "1", "1">>}

Taken(to, parts) == [n |-> wire.n + 1, to |-> to, parts |-> parts]

WireResult(r) ==
    /\ venue' = r.venue
    /\ book' = r.book

\* step 1 of the venue's loop with a datagram on the order socket
RecvDatagram(parts, jitter) ==
    /\ Running /\ venue.pc = "poll"
    /\ wire.n < MaxWire
    /\ WireResult(handle_client_message([venue EXCEPT !.pc = "release"], book,
                                        parts, venue.now_mono_ns, jitter))
    /\ wire' = Taken("venue", parts)
    /\ UNCHANGED <<feed, last, bridge>>

\* the bridge's loop with a datagram on the TRADE socket
RecvTrade(parts) ==
    /\ BridgeRunning
    /\ wire.n < MaxWire
    /\ bridge.next_arb_id <= MaxArbs
    /\ bridge' = handle_trade_parts(bridge, parts)
    /\ wire' = Taken("trade", parts)
    /\ UNCHANGED <<feed, book, last, venue>>

\* the bridge's loop with a datagram on the FILL socket
RecvFill(parts) ==
    /\ BridgeRunning
    /\ wire.n < MaxWire
    /\ bridge.nfill < MaxFills
    /\ bridge' = handle_fill_parts(bridge, parts)
    /\ wire' = Taken("fill", parts)
    /\ UNCHANGED <<feed, book, last, venue>>

WireNext ==
    \/ \E parts \in DatagramsToVenue : \E jitter \in WireJitters :
           RecvDatagram(parts, jitter)
    \/ Release
    \/ \E post \in RfgPosts : \E cross \in RfgCrosses : Step(post, cross)
    \/ Feed
    \/ \E parts \in DatagramsToTrade : RecvTrade(parts)
    \/ \E parts \in DatagramsToFill : RecvFill(parts)

SpecWire == BookInit /\ [][WireNext]_vars

\* the client ids a CXL datagram carries: the bridge's, another client's and
\* the random flow's
CxlClients == {CLIENT_ID, "MM", "BG_" \o EXCH_ID}

\* the datagrams that arrive at a venue whose clients cancel: NEW of two
\* clients who each number their orders from 1, a bid at 1.00 or an ask at
\* 2.00, and CXL of any client for any order id
DatagramsOfClients ==
    {<<"NEW", c, "1", x[1], "L", x[2], "0.01">> :
        c \in {CLIENT_ID, "MM"}, x \in {<<"B", "1.00">>, <<"S", "2">>}}
    \cup {<<"CXL", c, id>> : c \in CxlClients, id \in IntTokens}

\* how many datagrams a venue whose clients cancel takes during one run
MaxCxl == 3

\* step 1 of the venue's loop with a datagram of a client on the order
\* socket, its order released with no latency
RecvOfClient(parts) ==
    /\ Running /\ venue.pc = "poll"
    /\ wire.n < MaxCxl
    /\ WireResult(handle_client_message([venue EXCEPT !.pc = "release"], book,
                                        parts, venue.now_mono_ns, 0))
    /\ wire' = Taken("venue", parts)
    /\ UNCHANGED <<feed, last, bridge>>

\* what the random flow draws in these runs: an ask at 1.02, and a market
\* buy of 0.01
CxlPosts == {<<>>, <<"S", 204, MinQty + 1>>}

CxlCrosses == {<<>>, <<"S", MinQty>>}

CxlNext ==
    \/ PollNothing(venue.mono)
    \/ \E parts \in DatagramsOfClients : RecvOfClient(parts)
    \/ Release
    \/ \E post \in CxlPosts : \E cross \in CxlCrosses : Step(post, cross)
    \/ Feed

SpecCxl == BookInit /\ [][CxlNext]_vars

\* how many TRADE datagrams a bridge that gets nothing else handles
MaxTrades == 2

\* a TRADE datagram of eleven tokens whose numbers parse, one of several
TradeArrives(msg) ==
    /\ BridgeRunning
    /\ bridge.next_arb_id <= MaxTrades
    /\ bridge' = handle_trade_msg(bridge, msg)
    /\ UNCHANGED <<wire, feed, book, last, venue>>

TradesNext ==
    \/ \E msg \in TradeMessages : TradeArrives(msg)
    \/ \E msg \in TradeMessages : \E failing \in {"A", "B"} :
           HandleTradeSendFails(msg, failing)

SpecTrades == BookInit /\ [][TradesNext]_vars

\* ------------------------------------------------------------------------
\* End to end: the bridge, the venue EXA and the datagrams between them
\* ------------------------------------------------------------------------

\* how many orders the random flow makes during one end-to-end run
MaxFlow == 2

\* lines 279-284 of exchange_sim.py on a NEW datagram of the bridge: the
\* decimals of the wire read as the book's price units and quantity units
parse_new(dgram) ==
    [client_id |-> dgram.client_id, order_id |-> dgram.order_id,
     side |-> dgram.side, type |-> dgram.type,
     price |-> dgram.price \div PriceUnitMicros, qty |-> Parse6(dgram.qty)]

\* the NEW datagrams sent to the venue's order port, in the order sent
VenueInbox == SelectSeq(bridge.orders_sent, LAMBDA d : d.exch = EXCH_ID)

\* the TRADE datagrams that arrive: an arb of size 0.000002 that buys at
\* 1.00 and sells at 1.01 or at 1.00, both legs at the venue EXA
EndToEndTrades ==
    {[legA_exch |-> "EXA", legA_side |-> "BUY", legA_price |-> 2000000,
      legB_exch |-> "EXA", legB_side |-> "SELL", legB_price |-> p,
      size |-> 4] : p \in {2000000, 2020000}}

\* the next NEW datagram of the bridge reaches the venue
DeliverNew(now, t, jitter) ==
    /\ venue.nrecv < Len(VenueInbox)
    /\ RecvNew(now, t, parse_new(VenueInbox[venue.nrecv + 1]), jitter)

\* the next FILL datagram of the venue reaches the bridge
DeliverFill ==
    /\ bridge.nfill < Len(venue.fills_sent)
    /\ HandleFill(venue.fills_sent[bridge.nfill + 1])

EndToEndStep(vb, pc) ==
    /\ vb.book.nadd <= MaxRest
    /\ vb.venue.next_order_id - RfgFirstId <= MaxFlow
    /\ venue' = [vb.venue EXCEPT !.pc = IF vb.venue.status = "running" THEN pc ELSE @]
    /\ book' = vb.book
    /\ UNCHANGED <<wire, feed, last, bridge>>

\* step 2 of the venue's loop
EndToEndRelease ==
    /\ Running /\ venue.pc = "release"
    /\ EndToEndStep(process_pending_orders(venue, book, venue.now_mono_ns), "step")

\* step 3 of the venue's loop
EndToEndFlow(post, cross) ==
    /\ Running /\ venue.pc = "step"
    /\ EndToEndStep(rfg_step(venue, book, post, cross, venue.now_mono_ns), "feed")

EndToEndNext ==
    \/ \E msg \in EndToEndTrades : HandleTrade(msg)
    \/ \E now \in venue.mono..MaxClock : PollNothing(now)
    \/ \E now \in venue.mono..MaxClock : \E t \in now..MaxClock :
           \E jitter \in Jitters : DeliverNew(now, t, jitter)
    \/ EndToEndRelease
    \/ \E cross \in RfgCrosses : EndToEndFlow(<<>>, cross)
    \/ Feed
    \/ DeliverFill

SpecEndToEnd == BookInit /\ [][EndToEndNext]_vars

\* ------------------------------------------------------------------------
\* End to end over a network that loses datagrams
\* ------------------------------------------------------------------------

\* the TRADE datagrams that arrive: an arb that buys 0.020003 or 0.03 at 0.01
\* at the venue EXA and sells at 0.02 at EXB
LossyTrades ==
    {[legA_exch |-> "EXA", legA_side |-> "BUY", legA_price |-> 20000,
      legB_exch |-> "EXB", legB_side |-> "SELL", legB_price |-> 40000,
      size |-> sz] : sz \in {2 * MinQty + 6, 3 * MinQty}}

\* what the random flow draws in these runs: an ask at 0.01 for 0.0100015
LossyPosts == {<<>>, <<"S", 2, MinQty + 3>>}

\* the next NEW datagram of the bridge never reaches the venue
LoseNew ==
    /\ venue.nrecv < Len(VenueInbox)
    /\ venue.nrecv < MaxMsgs
    /\ venue' = [venue EXCEPT !.nrecv = @ + 1]
    /\ UNCHANGED <<wire, feed, book, last, bridge>>

\* the next FILL datagram of the venue never reaches the bridge
LoseFill ==
    /\ bridge.nfill < Len(venue.fills_sent)
    /\ bridge.nfill < MaxFills
    /\ bridge' = [bridge EXCEPT !.nfill = @ + 1]
    /\ UNCHANGED <<wire, feed, book, last, venue>>

LossyNext ==
    \/ \E msg \in LossyTrades : HandleTrade(msg)
    \/ \E now \in venue.mono..MaxClock : PollNothing(now)
    \/ \E now \in venue.mono..MaxClock : \E t \in now..MaxClock :
           \E jitter \in Jitters : DeliverNew(now, t, jitter)
    \/ LoseNew
    \/ EndToEndRelease
    \/ \E post \in LossyPosts : \E cross \in RfgCrosses : EndToEndFlow(post, cross)
    \/ Feed
    \/ DeliverFill
    \/ LoseFill

SpecLossy == BookInit /\ [][LossyNext]_vars

\* ------------------------------------------------------------------------
\* Properties of the book
\* ------------------------------------------------------------------------

RECURSIVE SumSeq(_)
SumSeq(s) == IF s = <<>> THEN 0 ELSE Head(s) + SumSeq(Tail(s))

Added == last.op = "add" /\ last.status = "ok"

NTrades == Len(last.trades)

\* before the k-th trade of the last add_order: what was left of the resting
\* object h, counted from the book before the call and the trades 1..k-1
RemBefore(h, k) ==
    last.pre.orders[h].remaining
    - SumSeq([j \in 1..(k - 1) |->
                 IF last.makers[j] = h THEN last.trades[j].qty ELSE 0])

OppLevels == IF last.order.side = "B" THEN last.pre.asks ELSE last.pre.bids

\* the pairs <<price, handle>> resting opposite the taker before trade k
RestingBefore(k) ==
    {ph \in UNION {{<<p, h>> : h \in Range(OppLevels[p])} : p \in DOMAIN OppLevels} :
        AboveEps(RemBefore(ph[2], k))}

BestBefore(k) ==
    LET prices == {ph[1] : ph \in RestingBefore(k)}
    IN  IF last.order.side = "B" THEN SetMin(prices) ELSE SetMax(prices)

\* C1: the book is never crossed or locked: one side is empty, or the best
\* bid is strictly below the best ask.
C1_NonCrossed ==
    \/ best_bid(book) = None
    \/ best_ask(book) = None
    \/ best_bid(book)[1] < best_ask(book)[1]

\* an add_order that traded and left orders on both sides of the book
C1_Witness ==
    /\ Added /\ NTrades > 0
    /\ best_bid(book) # None /\ best_ask(book) # None

\* C2: price-time priority.  The maker of every trade of an add_order rests
\* at the best opposite price at the moment of the trade and is the earliest
\* added (lowest handle) of the orders resting at that price, and the trade
\* names it.
C2_PriceTimePriority ==
    Added =>
        \A k \in 1..NTrades :
            LET m == last.makers[k]
            IN  /\ <<BestBefore(k), m>> \in RestingBefore(k)
                /\ \A ph \in RestingBefore(k) :
                       ph[1] = BestBefore(k) => m <= ph[2]
                /\ last.trades[k].maker_order_id = last.pre.orders[m].order_id

\* an add_order traded while two orders rested at the best opposite price
C2_Witness ==
    /\ Added /\ NTrades > 0
    /\ Cardinality({ph \in RestingBefore(1) : ph[1] = BestBefore(1)}) >= 2

\* C3: every trade is priced at the price its maker rests at.
C3_MakerPriced ==
    Added =>
        \A k \in 1..NTrades :
            last.trades[k].price = last.pre.orders[last.makers[k]].price

\* a limit order traded at a price that is not its own limit price
C3_Witness ==
    /\ Added /\ NTrades > 0
    /\ last.order.type = "L"
    /\ last.trades[1].price # last.order.price

\* what the last add_order took off the remaining quantity of the object h
\* that rested before the call
Dec(h) ==
    last.pre.orders[h].remaining
    - (IF h \in DOMAIN last.objs THEN last.objs[h].remaining
       ELSE book.orders[h].remaining)

RECURSIVE SumDec(_)
SumDec(H) ==
    IF H = {} THEN 0
    ELSE LET h == CHOOSE x \in H : TRUE IN Dec(h) + SumDec(H \ {h})

TradedQty == SumSeq([k \in 1..NTrades |-> last.trades[k].qty])

\* C4: conservation.  In every add_order the taker's remaining quantity goes
\* down by the sum of the trade quantities, every resting order's remaining
\* quantity goes down by the sum of the quantities of the trades it made, and
\* the quantity taken off the buy orders is the quantity taken off the sell
\* orders.
C4_Conservation ==
    Added =>
        /\ last.order.qty - last.order.remaining = TradedQty
        /\ \A h \in DOMAIN last.pre.orders :
               Dec(h) = SumSeq([k \in 1..NTrades |->
                                   IF last.makers[k] = h THEN last.trades[k].qty ELSE 0])
        /\ LET H == DOMAIN last.pre.orders
               buys == {h \in H : last.pre.orders[h].side = "B"}
               bought == SumDec(buys)
                         + (IF last.order.side = "B" THEN TradedQty ELSE 0)
               sold == SumDec(H \ buys)
                       + (IF last.order.side = "S" THEN TradedQty ELSE 0)
           IN  bought = sold

\* an add_order made two trades and left its second maker partly filled
C4_Witness ==
    /\ Added /\ NTrades = 2
    /\ AboveEps(last.objs[last.makers[2]].remaining)

\* the handles in the levels of a book
InLevels(bk) ==
    UNION {Range(bk.bids[p]) : p \in DOMAIN bk.bids}
    \cup UNION {Range(bk.asks[p]) : p \in DOMAIN bk.asks}

\* what a level holds: its orders, as values, from head to tail
LevelOrders(bk, q) == [i \in 1..Len(q) |-> bk.orders[q[i]]]

BidLevels(bk) == [p \in DOMAIN bk.bids |-> LevelOrders(bk, bk.bids[p])]

AskLevels(bk) == [p \in DOMAIN bk.asks |-> LevelOrders(bk, bk.asks[p])]

\* the same set of prices on each side, and the same orders with the same
\* quantities in every level
SameLevels(b1, b2) ==
    /\ BidLevels(b1) = BidLevels(b2)
    /\ AskLevels(b1) = AskLevels(b2)
    /\ Range(b1.bid_prices) = Range(b2.bid_prices)
    /\ Range(b1.ask_prices) = Range(b2.ask_prices)

\* an order with this id rests in a level with remaining quantity above epsilon
RestsWithId(bk, id) ==
    \E h \in InLevels(bk) :
        bk.orders[h].order_id = id /\ AboveEps(bk.orders[h].remaining)

\* the levels lv with the i-th order of the level at price p taken out, and
\* the level with it when that leaves it empty
TakeOut(lv, p, i) ==
    LET q == SubSeq(lv[p], 1, i - 1) \o SubSeq(lv[p], i + 1, Len(lv[p]))
    IN  IF q = <<>> THEN Del(lv, p) ELSE [lv EXCEPT ![p] = q]

\* the book b2 is the book b1 less one resting order with this id
LessOneWithId(b1, b2, id) ==
    \/ /\ AskLevels(b2) = AskLevels(b1)
       /\ \E p \in DOMAIN b1.bids : \E i \in 1..Len(b1.bids[p]) :
              /\ b1.orders[b1.bids[p][i]].order_id = id
              /\ BidLevels(b2) = TakeOut(BidLevels(b1), p, i)
    \/ /\ BidLevels(b2) = BidLevels(b1)
       /\ \E p \in DOMAIN b1.asks : \E i \in 1..Len(b1.asks[p]) :
              /\ b1.orders[b1.asks[p][i]].order_id = id
              /\ AskLevels(b2) = TakeOut(AskLevels(b1), p, i)

Cancelled == last.op = "cancel"

\* C5: cancel_order(id) returns true exactly when an order with that id
\* rested in the book just before the call, and then an order with that id is
\* taken out of its level; when it returns false the levels are unchanged.
C5_CancelIffResting ==
    Cancelled =>
        /\ last.ok <=> RestsWithId(last.pre, last.order_id)
        /\ last.ok => LessOneWithId(last.pre, book, last.order_id)
        /\ ~last.ok => SameLevels(book, last.pre)

RoundTripped ==
    /\ last.op = "roundtrip"
    /\ last.status = "ok"
    /\ last.order.type = "L"
    /\ last.trades = <<>>

\* C6 as claimed: adding any limit order that makes no trade and cancelling
\* it by its id returns true and restores the levels.
C6_RoundTripAnyQuantity ==
    RoundTripped => last.ok /\ SameLevels(book, last.pre)

\* how many times the order v stands in the level s
Count(s, v) == Cardinality({i \in DOMAIN s : s[i] = v})

\* two levels hold the same orders with the same quantities, whatever their
\* places in the queue
SameOrders(s, t) ==
    /\ Len(s) = Len(t)
    /\ \A v \in Range(s) \cup Range(t) : Count(s, v) = Count(t, v)

\* the same set of prices on each side and the same orders in every level
SameLevelContents(b1, b2) ==
    /\ Range(b1.bid_prices) = Range(b2.bid_prices)
    /\ Range(b1.ask_prices) = Range(b2.ask_prices)
    /\ DOMAIN b1.bids = DOMAIN b2.bids
    /\ DOMAIN b1.asks = DOMAIN b2.asks
    /\ \A p \in DOMAIN b1.bids : SameOrders(BidLevels(b1)[p], BidLevels(b2)[p])
    /\ \A p \in DOMAIN b1.asks : SameOrders(AskLevels(b1)[p], AskLevels(b2)[p])

\* C6: adding a limit order of quantity above epsilon that makes no trade and
\* cancelling it by its id returns true and restores the levels: the same
\* prices on each side, and in every level the same orders with the same
\* quantities (an order equal to the new one in every field may have given
\* its place in the queue to it).
C6_RoundTrip ==
    RoundTripped /\ AboveEps(last.order.qty) =>
        last.ok /\ SameLevelContents(book, last.pre)

\* a round trip on a book where an order with the same id already rested at
\* the price the new order went to
C6_Witness ==
    /\ RoundTripped /\ AboveEps(last.order.qty) /\ last.ok
    /\ \E h \in InLevels(last.pre) :
           /\ last.pre.orders[h].order_id = last.order_id
           /\ last.pre.orders[h].side = last.order.side
           /\ last.pre.orders[h].price = last.order.price

\* C15: add_order of an order whose quantity is negative fails with
\* InvalidOrder and leaves the book as it was.
C15_NegativeQuantityRejected ==
    (last.op = "add" /\ last.order.qty < 0) =>
        (last.status = "ValueError" /\ book = last.pre)

\* the queues of the taker's own side before the call and after it
OwnSideUntouched ==
    IF last.order.side = "B"
    THEN /\ book.bids = last.pre.bids /\ book.bid_prices = last.pre.bid_prices
         /\ BidLevels(book) = BidLevels(last.pre)
    ELSE /\ book.asks = last.pre.asks /\ book.ask_prices = last.pre.ask_prices
         /\ AskLevels(book) = AskLevels(last.pre)

\* C16: a market order never rests: after add_order of a market order,
\* whatever is left of it, no object has come to rest in the book, every
\* entry of the order-id index was there before the call (none refers to the
\* market order), and the queues of its own side are as they were.
C16_MarketNeverRests ==
    (Added /\ last.order.type = "M") =>
        /\ book.nadd = last.pre.nadd
        /\ InLevels(book) \subseteq InLevels(last.pre)
        /\ \A id \in DOMAIN book.order_index :
               /\ id \in DOMAIN last.pre.order_index
               /\ book.order_index[id] = last.pre.order_index[id]
        /\ OwnSideUntouched

\* a market order took all there was on the other side and has a remainder,
\* while an order of its own id rests on its own side
C16_Witness ==
    /\ Added /\ last.order.type = "M"
    /\ NTrades >= 1
    /\ AboveEps(last.order.remaining)
    /\ last.order.order_id \in DOMAIN book.order_index

\* the taker of the last add_order has come to rest in the book
Posted == book.nadd = last.pre.nadd + 1

\* no order of the other side rests at a price that crosses the taker's limit
NothingCrossingLeft ==
    IF last.order.side = "B"
    THEN best_ask(book) = None \/ best_ask(book)[1] > last.order.price
    ELSE best_bid(book) = None \/ best_bid(book)[1] < last.order.price

\* C27: a limit order never trades through its limit: every trade of a buy
\* limit order is priced at or below its rounded limit price and every trade
\* of a sell limit order at or above it, and the residual of a limit order is
\* posted only when no order of the other side at a crossing price remains.
C27_NoTradeThrough ==
    (Added /\ last.order.type = "L") =>
        /\ \A k \in 1..NTrades :
               IF last.order.side = "B"
               THEN last.trades[k].price <= last.order.price
               ELSE last.trades[k].price >= last.order.price
        /\ last.order.price = round_price(last.order.price)
        /\ Posted => NothingCrossingLeft

\* a limit order took what crossed, at a price better than its limit, and
\* its residual was posted
C27_Witness ==
    /\ Added /\ last.order.type = "L"
    /\ NTrades >= 1
    /\ last.trades[1].price # last.order.price
    /\ Posted

\* how many places in the queues of the book hold the object h
Places(bk, h) ==
    SumSeq([i \in 1..Len(bk.bid_prices) |-> Count(bk.bids[bk.bid_prices[i]], h)])
    + SumSeq([i \in 1..Len(bk.ask_prices) |-> Count(bk.asks[bk.ask_prices[i]], h)])

\* C17: after any sequence of add_order and cancel_order calls, every id in
\* the order-id index refers to an order of that id that is in exactly one
\* place of one price level queue and has a remaining quantity above epsilon.
C17_IndexedOrdersRest ==
    \A id \in DOMAIN book.order_index :
        /\ book.orders[book.order_index[id]].order_id = id
        /\ Places(book, book.order_index[id]) = 1
        /\ AboveEps(book.orders[book.order_index[id]].remaining)

\* an add_order filled a resting order and took it out of its level and out
\* of the index, while another order rests and stays indexed
C17_Witness ==
    /\ Added /\ NTrades >= 1
    /\ \E h \in Range(last.makers) : h \notin InLevels(book)
    /\ DOMAIN book.order_index # {}

\* ------------------------------------------------------------------------
\* Properties of the venue
\* ------------------------------------------------------------------------

\* one side of the book is well formed: the prices on the list are the keys
\* of the map, each once, no level is empty, and every order of a level has
\* the level's side and price and something left
SideWellFormed(bk, side_dict, price_list, side) ==
    /\ Range(price_list) = DOMAIN side_dict
    /\ Len(price_list) = Cardinality(DOMAIN side_dict)
    /\ \A p \in DOMAIN side_dict :
           /\ side_dict[p] # <<>>
           /\ \A i \in DOMAIN side_dict[p] :
                  /\ bk.orders[side_dict[p][i]].side = side
                  /\ bk.orders[side_dict[p][i]].price = p
                  /\ AboveEps(bk.orders[side_dict[p][i]].remaining)

\* C25: the book is well formed after any sequence of add_order and
\* cancel_order calls: on each side the active prices are the keys of the
\* price-to-level map, every level is non-empty, and every order in a level
\* has that level's side and price and a remaining quantity above epsilon.
C25_BookWellFormed ==
    /\ SideWellFormed(book, book.bids, book.bid_prices, "B")
    /\ SideWellFormed(book, book.asks, book.ask_prices, "S")

\* a level has just been emptied, by a cancel or by an order that traded,
\* while another level of that side stays
C25_Witness ==
    /\ last.op # "none"
    /\ \/ /\ DOMAIN book.bids # {}
          /\ DOMAIN book.bids # DOMAIN last.pre.bids
          /\ DOMAIN book.bids \subseteq DOMAIN last.pre.bids
       \/ /\ DOMAIN book.asks # {}
          /\ DOMAIN book.asks # DOMAIN last.pre.asks
          /\ DOMAIN book.asks \subseteq DOMAIN last.pre.asks

\* C7: the orders passed to the book's add_order are passed in the order in
\* which they were received: the k-th order released is the k-th order that
\* was enqueued on the delay line, and while the venue runs those still on
\* the line came after it.
C7_ReleaseInIngressOrder ==
    /\ venue.released = [k \in 1..Len(venue.released) |-> k]
    /\ Running =>
           \A i \in DOMAIN venue.pending_orders :
               venue.pending_orders[i].n > Len(venue.released)

\* two client orders were released and rest in the book, the one received
\* first with the later scheduled time
C7_Witness ==
    /\ venue.released = <<1, 2>>
    /\ \E h1, h2 \in DOMAIN book.orders :
           /\ h1 < h2
           /\ book.orders[h1].client_id = "PT" /\ book.orders[h2].client_id = "PT"
           /\ book.orders[h1].ts_ns > book.orders[h2].ts_ns

\* the arrival timestamps of the orders of a level do not fall from the head
\* of the queue to its tail
LevelInTsOrder(bk, q) ==
    \A i, j \in DOMAIN q :
        i < j => bk.orders[q[i]].ts_ns <= bk.orders[q[j]].ts_ns

\* C26: in a venue, within every price level the resting orders' arrival
\* timestamps (the delay line's scheduled time for client orders, the loop's
\* monotonic time for generator orders) are non-decreasing from the head of
\* the queue to its tail.
C26_QueueInTsOrder ==
    /\ \A p \in DOMAIN book.bids : LevelInTsOrder(book, book.bids[p])
    /\ \A p \in DOMAIN book.asks : LevelInTsOrder(book, book.asks[p])

\* C13: a NEW datagram of seven tokens whose side is not B or S, or whose
\* kind is not L or M, never ends the venue's loop: the failure of add_order
\* is caught where the order is released, and the loop goes on.
C13_InvalidOrderCaught == venue.status # "crashed"

\* C10: the FILL datagrams sent are the Trades the book has generated, one
\* FILL for each Trade and in the order of generation, whoever the taker was.
C10_FillPerTrade ==
    venue.fills_sent =
        [k \in 1..Len(venue.book_trades) |-> FILL(venue.book_trades[k])]

\* C18: the scheduled timestamps of the entries of the order delay line are
\* non-decreasing from its head to its tail.
C18_ScheduledNonDecreasing ==
    \A i, j \in DOMAIN venue.pending_orders :
        i < j => venue.pending_orders[i].scheduled_ns
                     <= venue.pending_orders[j].scheduled_ns

\* C19: at the end of the order release step of a loop iteration no entry
\* whose scheduled time is at or before that iteration's now_mono_ns is left
\* on the order delay line.
C19_NoDueOrderLeft ==
    (Running /\ venue.pc = "step") =>
        \A i \in DOMAIN venue.pending_orders :
            venue.pending_orders[i].scheduled_ns > venue.now_mono_ns

\* the ids of the orders waiting on the delay line
WaitingIds == {venue.pending_orders[i].order.order_id : i \in DOMAIN venue.pending_orders}

\* a poll step takes no order out of the book whose id is that of an order
\* waiting on the delay line
NoCancelOfWaiting ==
    venue.pc = "poll" =>
        \A h \in InLevels(book) \ InLevels(book') :
            book.orders[h].order_id \notin WaitingIds

\* C20: a CXL is applied to the book as it is when the datagram is handled
\* and is never put on the delay line, so that a CXL handled while the NEW
\* of the same order id waits on the delay line fails and leaves the book as
\* it was, and the delay line keeps the order for its release.
C20_CancelOfWaitingFails ==
    [][NoCancelOfWaiting /\ (venue.pc = "poll" /\ book' # book =>
                                 venue'.pending_orders = venue.pending_orders)]_vars

\* the sequence numbers of the TICK datagrams sent rise, those of the ticks
\* on the delay line are the last ones assigned, one after the other, and
\* come after those sent
TicksInSeqOrder ==
    /\ \A i, j \in DOMAIN feed.ticks_sent :
           i < j => feed.ticks_sent[i].seq < feed.ticks_sent[j].seq
    /\ \A i \in DOMAIN feed.pending_ticks :
           feed.pending_ticks[i].seq = feed.seq - Len(feed.pending_ticks) + i
    /\ \A i \in DOMAIN feed.ticks_sent :
           /\ feed.ticks_sent[i].seq >= 1
           /\ feed.ticks_sent[i].seq <= feed.seq - Len(feed.pending_ticks)

\* a step takes at most one snapshot, and a snapshot takes the next number
SeqByOne ==
    \/ feed'.seq = feed.seq
    \/ /\ feed'.seq = feed.seq + 1
       /\ \/ /\ feed'.pending_ticks # <<>>
             /\ feed'.pending_ticks[Len(feed'.pending_ticks)].seq = feed'.seq
          \/ /\ feed'.pending_ticks = <<>>
             /\ Len(feed'.ticks_sent) <= Len(feed.ticks_sent) + Len(feed.pending_ticks) + 1

\* C24: tick sequence numbers are assigned at snapshot time as 1, 2, 3, ...,
\* one per snapshot, and the TICK datagrams a venue transmits carry strictly
\* increasing sequence numbers in the order of transmission.
C24_TickSeqIncreasing == []TicksInSeqOrder /\ [][SeqByOne]_vars

\* three snapshots taken: the first two transmitted, the third on the delay
\* line and not yet due
C24_Witness ==
    /\ feed.seq = 3
    /\ Len(feed.ticks_sent) = 2
    /\ Len(feed.pending_ticks) = 1
    /\ venue.now_mono_ns < feed.pending_ticks[1].scheduled_ns

\* C31: every tick a venue enqueues, and every TICK it transmits, has its bid
\* strictly below its ask, whether both sides come from the book, one side
\* is synthesized at 0.5 from the present side, or both at 0.25 around the
\* saved synthetic mid.
C31_TickBidBelowAsk ==
    /\ \A i \in DOMAIN feed.pending_ticks :
           feed.pending_ticks[i].bid < feed.pending_ticks[i].ask
    /\ \A i \in DOMAIN feed.ticks_sent :
           feed.ticks_sent[i].bid < feed.ticks_sent[i].ask

\* three TICK datagrams sent: one with both sides synthesized around the
\* mid, one with one side synthesized from the other, one with both sides
\* from the book, a tick apart
C31_Witness ==
    /\ Len(feed.ticks_sent) = 3
    /\ feed.ticks_sent[1].ask - feed.ticks_sent[1].bid = 50
    /\ \E i \in {2, 3} : feed.ticks_sent[i].ask - feed.ticks_sent[i].bid = 50
                         /\ feed.ticks_sent[i].bid # feed.ticks_sent[1].bid
    /\ \E i \in {2, 3} : feed.ticks_sent[i].ask - feed.ticks_sent[i].bid = 2

\* the orders passed to add_order in this step are the first on the delay
\* line, and the scheduled time of each has come
ReleasedWhenDue ==
    \A k \in (Len(venue.released) + 1)..Len(venue'.released) :
        /\ venue.pending_orders[k - Len(venue.released)].n = venue'.released[k]
        /\ venue.pending_orders[k - Len(venue.released)].scheduled_ns
               <= venue.now_mono_ns

\* C32: no client order enters the book before its simulated latency has
\* elapsed: every order passed to add_order by the release step has a
\* scheduled time at or before the now_mono_ns of the iteration that
\* releases it, and no tick is transmitted before its scheduled time.
C32_NothingBeforeItsTime == [](~feed.early) /\ [][ReleasedWhenDue]_vars

\* a client order with a latency was released and rests in the book, and a
\* TICK was sent while a later tick waits for its time
C32_Witness ==
    /\ venue.released # <<>>
    /\ \E h \in DOMAIN book.orders :
           book.orders[h].client_id = "PT" /\ book.orders[h].ts_ns >= 1
    /\ feed.ticks_sent # <<>>
    /\ feed.pending_ticks # <<>>
    /\ feed.pending_ticks[1].scheduled_ns > venue.now_mono_ns

\* the order numbered n waits on the delay line, and the clock of the run
\* gets to its time and to the times of the entries before it
OrderQueued(n) ==
    \E i \in DOMAIN venue.pending_orders :
        /\ venue.pending_orders[i].n = n
        /\ \A j \in 1..i : venue.pending_orders[j].scheduled_ns <= MaxFeedClock

OrderReleased(n) == \E k \in DOMAIN venue.released : venue.released[k] = n

\* the tick numbered seq waits on the delay line, and the clock of the run
\* gets to its time and to the times of the entries before it
TickQueued(seq) ==
    \E i \in DOMAIN feed.pending_ticks :
        /\ feed.pending_ticks[i].seq = seq
        /\ \A j \in 1..i : feed.pending_ticks[j].scheduled_ns <= MaxFeedClock

TickPending(seq) ==
    \E i \in DOMAIN feed.pending_ticks : feed.pending_ticks[i].seq = seq

TickSent(seq) == \E i \in DOMAIN feed.ticks_sent : feed.ticks_sent[i].seq = seq

\* no order was passed to the book twice, no tick transmitted twice
NothingTwice ==
    /\ \A i, j \in DOMAIN venue.released :
           i # j => venue.released[i] # venue.released[j]
    /\ \A i, j \in DOMAIN feed.ticks_sent :
           i # j => feed.ticks_sent[i].seq # feed.ticks_sent[j].seq

\* nothing whose time the clock gets to is left on the order delay line
NoOrderLeft == \A n \in 1..MaxMsgs : ~OrderQueued(n)

\* every tick enqueued so far was transmitted, but for those whose time the
\* clock does not get to
AllTransmitted ==
    \A seq \in 1..feed.seq :
        \/ TickSent(seq)
        \/ TickPending(seq) /\ ~TickQueued(seq)

\* every tick enqueued so far has left the delay line, but for those whose
\* time the clock does not get to
AllHandedOver == \A seq \in 1..feed.seq : ~TickQueued(seq)

\* C33, as stated: while the loop keeps iterating and its clock keeps
\* advancing, every order scheduled on the order delay line is eventually
\* passed to the book exactly once, and every tick enqueued on the tick delay
\* line is eventually transmitted exactly once: no entry is released twice,
\* and again and again nothing enqueued is left unreleased or untransmitted.
C33_EventuallyTransmitted ==
    /\ []NothingTwice
    /\ []<>(~Running \/ (NoOrderLeft /\ AllTransmitted))

\* C33, amended: every order scheduled is eventually passed to the book
\* exactly once, and every tick enqueued eventually leaves the delay line,
\* handed to the socket once: it is transmitted, or dropped when the
\* operating system refuses the send.
C33_EventuallyHandedOver ==
    /\ []NothingTwice
    /\ []<>(~Running \/ (NoOrderLeft /\ AllHandedOver))

\* an order that had to wait was released, the first tick was refused by the
\* operating system and the second transmitted
C33_Witness ==
    /\ Running
    /\ venue.released # <<>>
    /\ \E h \in DOMAIN book.orders : book.orders[h].ts_ns >= 1
    /\ feed.seq = 2
    /\ feed.pending_ticks = <<>>
    /\ Len(feed.ticks_sent) = 1 /\ feed.ticks_sent[1].seq = 2

\* ------------------------------------------------------------------------
\* Properties of the bridge
\* ------------------------------------------------------------------------

RecordsOf(bs, arb_id) == {k \in DOMAIN bs.records : bs.records[k].arb_id = arb_id}

Closed(bs) == {a \in DOMAIN bs.arbs : bs.arbs[a].closed}

\* a step leaves every arb that was closed as it was and writes no record for it
ClosedStaysPut ==
    \A a \in Closed(bridge) :
        /\ bridge'.arbs[a] = bridge.arbs[a]
        /\ RecordsOf(bridge', a) = RecordsOf(bridge, a)

\* C8: finalization is one-shot: no arb ever has more than one completion
\* record, and once an arb is closed no FILL datagram changes the filled_qty
\* or weighted_price_sum of its legs or makes a record for it.
C8_OneShot ==
    /\ [](\A a \in DOMAIN bridge.arbs : Cardinality(RecordsOf(bridge, a)) <= 1)
    /\ [][ClosedStaysPut]_vars

\* the last datagram handled was a FILL for an order of an arb that had been
\* closed, with its one record written
C8_Witness ==
    /\ bridge.late
    /\ \E a \in Closed(bridge) : Cardinality(RecordsOf(bridge, a)) = 1

\* weighted_price_sum / filled_qty of a leg
LegAvg(leg) == Quot(leg.weighted_price_sum, leg.filled_qty)

\* the record r is the one the claim describes for buy leg b and sell leg s
PnlOf(r, legs, b, s) ==
    /\ RatEq(r.spread_realized, RatSub(LegAvg(legs[s]), LegAvg(legs[b])))
    /\ RatEq(r.pnl, RatScale(RatSub(LegAvg(legs[s]), LegAvg(legs[b])),
                             Min(legs.A.filled_qty, legs.B.filled_qty)))

\* the ways of naming a BUY leg b and a SELL leg s of an arb
BuySell(legs) ==
    {bs \in {<<"A", "B">>, <<"B", "A">>} :
        Upper(legs[bs[1]].side) = "BUY" /\ Upper(legs[bs[2]].side) = "SELL"}

\* C9 as claimed: every record is that of the arb's BUY leg and SELL leg.
C9_PnlOfBuyAndSellLeg ==
    \A k \in DOMAIN bridge.records :
        \E bs \in BuySell(bridge.arbs[bridge.records[k].arb_id].legs) :
            PnlOf(bridge.records[k], bridge.arbs[bridge.records[k].arb_id].legs,
                  bs[1], bs[2])

\* C9: for every closed arb one of whose legs is a BUY and the other a SELL,
\* the record has spread_realized = sell_avg - buy_avg and
\* pnl = spread_realized * min(legA.filled_qty, legB.filled_qty), the averages
\* being weighted_price_sum / filled_qty of the SELL leg and of the BUY leg.
C9_PnlFormula ==
    \A k \in DOMAIN bridge.records :
        \A bs \in BuySell(bridge.arbs[bridge.records[k].arb_id].legs) :
            PnlOf(bridge.records[k], bridge.arbs[bridge.records[k].arb_id].legs,
                  bs[1], bs[2])

\* a record of an arb whose leg A sells and leg B buys, the legs filled to
\* different quantities at different average prices
C9_Witness ==
    \E k \in DOMAIN bridge.records :
        /\ BuySell(bridge.arbs[bridge.records[k].arb_id].legs) = {<<"B", "A">>}
        /\ bridge.arbs[bridge.records[k].arb_id].legs.A.filled_qty
               # bridge.arbs[bridge.records[k].arb_id].legs.B.filled_qty
        /\ bridge.records[k].spread_realized[1] # 0

\* C12: whatever TRADE and FILL datagrams arrive, handling one never raises
\* an exception out of the bridge's loop: the loop is never crashed and goes
\* on to the next datagram.
C12_BridgeNeverCrashes == bridge.status # "crashed"

\* C14: when the operating system refuses a send, the sender logs, drops
\* that message and goes on: a failed send of the NEW of a leg does not stop
\* the bridge's loop and leaves the arb open.
C14_SendFailureSurvived ==
    bridge.oserror =>
        /\ bridge.status = "running"
        /\ \A a \in DOMAIN bridge.arbs : ~bridge.arbs[a].closed

\* the arbs are numbered 1, 2, ... in the order opened, the NEW datagrams
\* sent carry different order ids, and order_to_arb holds, for each NEW sent
\* and for nothing else, the arb and the leg it was sent for
IdsInOrder ==
    /\ DOMAIN bridge.arbs = 1..(bridge.next_arb_id - 1)
    /\ \A a \in DOMAIN bridge.arbs : bridge.arbs[a].arb_id = a
    /\ \A i, j \in DOMAIN bridge.orders_sent :
           i < j => /\ bridge.orders_sent[i].order_id < bridge.orders_sent[j].order_id
                    /\ bridge.orders_sent[i].arb_id <= bridge.orders_sent[j].arb_id
                    /\ bridge.orders_sent[j].order_id < bridge.next_order_id
    /\ DOMAIN bridge.order_to_arb =
           {<<bridge.orders_sent[i].exch, bridge.orders_sent[i].order_id>> :
               i \in DOMAIN bridge.orders_sent}
    /\ \A i \in DOMAIN bridge.orders_sent :
           bridge.order_to_arb[<<bridge.orders_sent[i].exch,
                                 bridge.orders_sent[i].order_id>>]
               = <<bridge.orders_sent[i].arb_id, bridge.orders_sent[i].leg_key>>

\* a step takes the arb id of a new arb from the counter, moves no counter
\* back, and keeps every arb under its id
IdsNotReused ==
    /\ bridge'.next_arb_id >= bridge.next_arb_id
    /\ bridge'.next_order_id >= bridge.next_order_id
    /\ DOMAIN bridge.arbs \subseteq DOMAIN bridge'.arbs
    /\ \A a \in DOMAIN bridge'.arbs \ DOMAIN bridge.arbs : a >= bridge.next_arb_id
    /\ \A k \in DOMAIN bridge.order_to_arb :
           /\ k \in DOMAIN bridge'.order_to_arb
           /\ bridge'.order_to_arb[k] = bridge.order_to_arb[k]

\* the bridge's own state: arbs and legs, order_to_arb, both counters, what
\* it has sent and written; the history kept beside it is left out
OwnState(bs) == [bs EXCEPT !.nfill = 0, !.late = FALSE, !.foreign = "no"]

\* C28: a FILL datagram in which neither the taker nor the maker client id
\* is the bridge's, or whose (venue, order id) for the bridge's role is not
\* in order_to_arb, leaves the whole bridge state (arbs, legs, order_to_arb,
\* counters) unchanged and emits no completion record.
C28_ForeignFillIgnored ==
    [][(bridge'.nfill = bridge.nfill + 1 /\ bridge'.foreign # "no")
           => OwnState(bridge') = OwnState(bridge)]_vars

\* the last FILL handled named no order of the bridge's while an arb was open
\* with an order out
C28_Witness ==
    /\ bridge.foreign = "out"
    /\ bridge.order_to_arb # EmptyMap
    /\ \E a \in DOMAIN bridge.arbs : ~bridge.arbs[a].closed

\* C21: across any sequence of TRADE datagrams the arb ids are allocated
\* strictly increasing and never reused, every NEW sent carries an order id
\* that no other NEW carries, at either venue and for any arb, and
\* order_to_arb maps each (venue, order id) sent to the arb and the leg key
\* the order was sent for.
C21_FreshIds == []IdsInOrder /\ [][IdsNotReused]_vars

\* two arbs opened one after the other, three orders sent for them (the
\* fourth leg names a venue or a side the bridge does not send to), orders
\* at both venues
C21_Witness ==
    /\ DOMAIN bridge.arbs = {1, 2}
    /\ Len(bridge.orders_sent) = 3
    /\ {bridge.orders_sent[i].exch : i \in DOMAIN bridge.orders_sent} = {"EXA", "EXB"}
    /\ bridge.next_order_id > 4

\* filled_qty + 1e-9 >= target_qty for both legs, quantities being whole
\* numbers of units
BothLegsAtTarget(arb) ==
    /\ arb.legs.A.filled_qty >= arb.legs.A.target_qty
    /\ arb.legs.B.filled_qty >= arb.legs.B.target_qty

\* a FILL was accepted for the arb: one of its legs has taken a quantity (the
\* quantities of the FILL datagrams are positive)
FillAccepted(arb) ==
    arb.legs.A.filled_qty # 0 \/ arb.legs.B.filled_qty # 0

\* C22: at the end of handling a FILL that was accepted for an open arb, the
\* arb is closed if and only if both of its legs have
\* filled_qty + 1e-9 >= target_qty.  An arb changes only under the FILLs
\* accepted for it, so this is stated of every arb that has taken a FILL.
C22_ClosedIffAtTarget ==
    \A a \in DOMAIN bridge.arbs :
        FillAccepted(bridge.arbs[a]) =>
            (bridge.arbs[a].closed <=> BothLegsAtTarget(bridge.arbs[a]))

UnknownVenue(leg) == Upper(leg.exch) \notin DOMAIN ORDER_PORTS

\* a leg the bridge has a port and a side code for
Sendable(leg) == ~UnknownVenue(leg) /\ Upper(leg.side) \in {"BUY", "SELL"}

OtherLeg(leg_key) == IF leg_key = "A" THEN "B" ELSE "A"

\* a NEW was sent for the leg
SentFor(a, leg_key) ==
    \E i \in DOMAIN bridge.orders_sent :
        bridge.orders_sent[i].arb_id = a /\ bridge.orders_sent[i].leg_key = leg_key

\* some (venue, order id) is mapped to the leg
MappedFor(a, leg_key) ==
    \E key \in DOMAIN bridge.order_to_arb : bridge.order_to_arb[key] = <<a, leg_key>>

\* the legs of positive size that name a venue absent from ORDER_PORTS
DroppedLegs ==
    {al \in (DOMAIN bridge.arbs) \X {"A", "B"} :
        /\ bridge.arbs[al[1]].legs[al[2]].target_qty > 0
        /\ UnknownVenue(bridge.arbs[al[1]].legs[al[2]])}

\* no NEW and no mapping for the leg, and its arb open with no record
DroppedAndOpen(a, leg_key) ==
    /\ ~SentFor(a, leg_key)
    /\ ~MappedFor(a, leg_key)
    /\ ~bridge.arbs[a].closed
    /\ RecordsOf(bridge, a) = {}

\* C23 as claimed: the other leg's order is sent whatever the other leg is.
C23_UnknownVenueOtherLegSent ==
    \A al \in DroppedLegs :
        DroppedAndOpen(al[1], al[2]) /\ SentFor(al[1], OtherLeg(al[2]))

\* C23: for a TRADE of positive size one leg of which names a venue absent
\* from the routing table, no NEW is sent and no reverse mapping is recorded
\* for that leg, the arb is never closed and never gets a completion record
\* whatever FILL datagrams arrive, and the other leg's order is sent when
\* that leg names a known venue and a side BUY or SELL and the operating
\* system takes the send.
C23_UnknownVenueLegDropped ==
    \A al \in DroppedLegs :
        /\ DroppedAndOpen(al[1], al[2])
        /\ (Sendable(bridge.arbs[al[1]].legs[OtherLeg(al[2])]) /\ ~bridge.oserror)
               => SentFor(al[1], OtherLeg(al[2]))

\* leg B of an arb names an unknown venue, leg A's order was sent and FILLs
\* have taken leg A to its target and beyond
C23_Witness ==
    /\ <<1, "B">> \in DroppedLegs
    /\ SentFor(1, "A")
    /\ bridge.arbs[1].legs.A.filled_qty > bridge.arbs[1].legs.A.target_qty
    /\ bridge.nfill >= 2

\* ------------------------------------------------------------------------
\* Properties end to end
\* ------------------------------------------------------------------------

\* the NEW datagrams sent for the leg leg_key of the arb a
LegOrders(a, leg_key) ==
    {i \in DOMAIN bridge.orders_sent :
        /\ <<bridge.orders_sent[i].exch, bridge.orders_sent[i].order_id>>
               \in DOMAIN bridge.order_to_arb
        /\ bridge.order_to_arb[<<bridge.orders_sent[i].exch,
                                 bridge.orders_sent[i].order_id>>] = <<a, leg_key>>}

\* the quantity of the order of the datagram d that the Trades of the book
\* have executed, as taker and as maker
ExecutedOf(d) ==
    SumSeq([k \in 1..Len(venue.book_trades) |->
               IF \/ /\ venue.book_trades[k].taker_client_id = d.client_id
                     /\ venue.book_trades[k].taker_order_id = d.order_id
                  \/ /\ venue.book_trades[k].maker_client_id = d.client_id
                     /\ venue.book_trades[k].maker_order_id = d.order_id
               THEN venue.book_trades[k].qty ELSE 0])

\* the order of the leg was sent and the book has filled it completely
LegFilledInBook(a, leg_key) ==
    \E i \in LegOrders(a, leg_key) :
        /\ bridge.orders_sent[i].exch = EXCH_ID
        /\ Parse6(bridge.orders_sent[i].qty) > 0
        /\ ExecutedOf(bridge.orders_sent[i]) = Parse6(bridge.orders_sent[i].qty)

\* C11: end to end, when the bridge has sent both leg orders of an arb, the
\* book has filled each of them completely (as taker or as resting maker)
\* and every FILL datagram the venue sent has reached the bridge and been
\* handled, the arb is closed and has exactly one completion record.
C11_FilledArbIsClosed ==
    \A a \in DOMAIN bridge.arbs :
        (/\ LegFilledInBook(a, "A") /\ LegFilledInBook(a, "B")
         /\ bridge.nfill = Len(venue.fills_sent)
         /\ BridgeRunning)
        => (bridge.arbs[a].closed /\ Cardinality(RecordsOf(bridge, a)) = 1)

\* the quantity the book has executed against the orders of the leg
ExecutedOfLeg(a, leg_key) ==
    SumSeq([i \in 1..Len(bridge.orders_sent) |->
               IF i \in LegOrders(a, leg_key) /\ bridge.orders_sent[i].exch = EXCH_ID
               THEN ExecutedOf(bridge.orders_sent[i]) ELSE 0])

\* how many Trades of the book name the order of the datagram d
TradesOf(d) ==
    Cardinality({k \in 1..Len(venue.book_trades) :
        \/ /\ venue.book_trades[k].taker_client_id = d.client_id
           /\ venue.book_trades[k].taker_order_id = d.order_id
        \/ /\ venue.book_trades[k].maker_client_id = d.client_id
           /\ venue.book_trades[k].maker_order_id = d.order_id})

TradesOfLeg(a, leg_key) ==
    SumSeq([i \in 1..Len(bridge.orders_sent) |->
               IF i \in LegOrders(a, leg_key) /\ bridge.orders_sent[i].exch = EXCH_ID
               THEN TradesOf(bridge.orders_sent[i]) ELSE 0])

Legs == {<<a, leg_key>> : a \in DOMAIN bridge.arbs, leg_key \in {"A", "B"}}

\* C34, as stated: with the bridge alone under its client id and a network
\* that loses datagrams but neither duplicates nor alters them, each leg's
\* filled_qty is at most the quantity the venue's book has executed against
\* the leg's order, and at most the leg's target quantity.
C34_FilledAtMostExecuted ==
    \A l \in Legs :
        /\ bridge.arbs[l[1]].legs[l[2]].filled_qty <= ExecutedOfLeg(l[1], l[2])
        /\ bridge.arbs[l[1]].legs[l[2]].filled_qty
               <= bridge.arbs[l[1]].legs[l[2]].target_qty

\* C34, amended: each leg's filled_qty is above the quantity the book has
\* executed against the leg's order by at most half a millionth, the
\* rounding of a FILL's quantity to six decimals, for each Trade against the
\* order.
C34_FilledWithinRounding ==
    \A l \in Legs :
        bridge.arbs[l[1]].legs[l[2]].filled_qty
            <= ExecutedOfLeg(l[1], l[2]) + TradesOfLeg(l[1], l[2])

\* the book has executed two Trades of 0.0100015 against the order of leg A;
\* of the two FILL datagrams one was lost and the other, with its quantity
\* printed as 0.010002, has reached the bridge
C34_Witness ==
    /\ 1 \in DOMAIN bridge.arbs
    /\ Len(venue.fills_sent) = 2 /\ bridge.nfill = 2
    /\ ExecutedOfLeg(1, "A") = 2 * (MinQty + 3)
    /\ bridge.arbs[1].legs.A.filled_qty = Parse6(FormatQty(MinQty + 3))
    /\ bridge.arbs[1].legs.A.filled_qty > MinQty + 3


\* the FILL datagrams that name the bridge's client id as taker and as maker
BothRoleFills ==
    {msg \in RoleFillMessages :
        msg.taker_client = CLIENT_ID /\ msg.maker_client = CLIENT_ID}

TakerKey(msg) == <<Upper(msg.exch_id), msg.taker_oid>>

MakerKey(msg) == <<Upper(msg.exch_id), msg.maker_oid>>

\* both roles of the FILL resolve, to legs of one arb
BothResolve(msg) ==
    /\ TakerKey(msg) \in DOMAIN bridge.order_to_arb
    /\ MakerKey(msg) \in DOMAIN bridge.order_to_arb
    /\ bridge.order_to_arb[TakerKey(msg)][1] = bridge.order_to_arb[MakerKey(msg)][1]
    /\ bridge.order_to_arb[TakerKey(msg)][1] \in DOMAIN bridge.arbs

\* both roles of the FILL resolve to the same leg
SameLeg(msg) ==
    /\ BothResolve(msg)
    /\ bridge.order_to_arb[TakerKey(msg)] = bridge.order_to_arb[MakerKey(msg)]

\* the bridge handles the FILL in this step
Handles(msg) ==
    /\ BridgeRunning
    /\ bridge'.nfill = bridge.nfill + 1
    /\ OwnState(bridge') = OwnState(handle_fill_msg(bridge, msg))

\* the leg an order is mapped to grows in this step by n times the FILL
LegGrows(msg, key, n) ==
    LET arb_id == bridge.order_to_arb[key][1]
        leg_key == bridge.order_to_arb[key][2]
        before == bridge.arbs[arb_id].legs[leg_key]
        after == bridge'.arbs[arb_id].legs[leg_key]
    IN  /\ after.filled_qty = before.filled_qty + n * Parse6(msg.qty)
        /\ after.weighted_price_sum =
               before.weighted_price_sum
               + n * Parse6(msg.price) * Parse6(msg.qty)

\* the arb of the FILL is closed when the FILL arrives
ClosedBefore(msg) ==
    bridge.arbs[bridge.order_to_arb[TakerKey(msg)][1]].closed

\* with the taker's role applied both legs of the arb are at target: the
\* finalization runs and the arb is closed, or it raises
TakerEndsArb(msg) ==
    LET arb_id == bridge.order_to_arb[TakerKey(msg)][1]
        leg_key == bridge.order_to_arb[TakerKey(msg)][2]
    IN  BothLegsAtTarget(
            [bridge.arbs[arb_id] EXCEPT
                 !.legs[leg_key].filled_qty = @ + Parse6(msg.qty)])

\* C29, as stated: when a FILL names the bridge's client id as both taker
\* and maker, both roles are applied; when both resolve to the same leg, the
\* leg's filled_qty grows by the fill quantity twice and its
\* weighted_price_sum by price*qty twice.
C29_BothRolesApplied ==
    [][\A msg \in BothRoleFills :
           (SameLeg(msg) /\ Handles(msg)) => LegGrows(msg, TakerKey(msg), 2)]_vars

\* C29, amended: the taker's role is applied first, to an arb that is not
\* closed; the maker's role is applied after it unless the arb was closed
\* before or the taker's role has brought both legs to target (the arb is
\* then closed, or the finalization has raised).  A leg both roles resolve
\* to grows twice, once or not at all; of two legs of one arb the taker's
\* grows once unless the arb was closed, the maker's once unless the arb
\* was closed or the taker's role ended it.
C29_RolesAppliedInTurn ==
    [][\A msg \in BothRoleFills :
           (BothResolve(msg) /\ Handles(msg)) =>
               IF SameLeg(msg)
               THEN LegGrows(msg, TakerKey(msg),
                             IF ClosedBefore(msg) THEN 0
                             ELSE IF TakerEndsArb(msg) THEN 1 ELSE 2)
               ELSE /\ LegGrows(msg, TakerKey(msg),
                                IF ClosedBefore(msg) THEN 0 ELSE 1)
                    /\ LegGrows(msg, MakerKey(msg),
                                IF ClosedBefore(msg) \/ TakerEndsArb(msg)
                                THEN 0 ELSE 1)]_vars

\* the one FILL handled named the bridge as taker and as maker of one order
\* and was applied twice to its leg, and the arb is still open
C29_Witness ==
    /\ bridge.nfill = 1
    /\ \E a \in DOMAIN bridge.arbs :
           /\ ~bridge.arbs[a].closed
           /\ bridge.arbs[a].legs.A.filled_qty = 2 * Parse6(2)
           /\ bridge.arbs[a].legs.A.weighted_price_sum
                  \in {2 * Parse6(p) * Parse6(2) : p \in {100, 101}}


\* the tokens that are numbers
Numeric(token) == token \in {"1", "2", "1.00", "0.01", "0.0001", "0.000001", "0.0"}

\* a datagram the venue gets is malformed: a NEW that does not have seven
\* tokens, a CXL that does not have three, an unknown command, or an id,
\* price or quantity that is not a number
MalformedToVenue(parts) ==
    \/ parts = <<>>
    \/ parts # <<>> /\ parts[1] \notin {"NEW", "CXL"}
    \/ parts # <<>> /\ parts[1] = "NEW"
          /\ \/ Len(parts) # 7
             \/ Len(parts) = 7 /\ \E i \in {3, 6, 7} : ~Numeric(parts[i])
    \/ parts # <<>> /\ parts[1] = "CXL"
          /\ \/ Len(parts) # 3
             \/ Len(parts) = 3 /\ ~Numeric(parts[3])

\* a TRADE that does not have eleven tokens, or whose prices, size, spread or
\* timestamp are not numbers
MalformedTrade(parts) ==
    \/ Len(parts) # 11
    \/ Len(parts) = 11 /\ \E i \in {5, 8, 9, 10, 11} : ~Numeric(parts[i])

\* a FILL that does not have ten tokens, or whose price, quantity, order ids
\* or timestamp are not numbers
MalformedFill(parts) ==
    \/ Len(parts) # 10
    \/ Len(parts) = 10 /\ \E i \in {4, 5, 7, 9, 10} : ~Numeric(parts[i])

\* C30: malformed wire input is dropped without any state change: in the
\* venue a NEW that does not have exactly 7 tokens, a CXL that does not have
\* exactly 3, an unknown command, or a non-numeric id, price or quantity
\* leaves the book and both delay lines unchanged; in the bridge a TRADE that
\* does not have exactly 11 tokens or a FILL that does not have exactly 10,
\* or one with non-numeric numeric fields, leaves arbs, order_to_arb and both
\* counters unchanged.
C30_MalformedDropped ==
    [][wire'.n = wire.n + 1 =>
           /\ (wire'.to = "venue" /\ MalformedToVenue(wire'.parts)) =>
                  /\ book' = book
                  /\ Len(venue'.pending_orders) = Len(venue.pending_orders)
                  /\ feed'.pending_ticks = feed.pending_ticks
           /\ (\/ wire'.to = "trade" /\ MalformedTrade(wire'.parts)
               \/ wire'.to = "fill" /\ MalformedFill(wire'.parts)) =>
                  /\ bridge'.arbs = bridge.arbs
                  /\ bridge'.order_to_arb = bridge.order_to_arb
                  /\ bridge'.next_arb_id = bridge.next_arb_id
                  /\ bridge'.next_order_id = bridge.next_order_id]_vars

\* ------------------------------------------------------------------------
\* Properties of CXL
\* ------------------------------------------------------------------------

\* the Order objects in the queues of the book
RestingHandles(bk) ==
    UNION ({Range(bk.bids[p]) : p \in DOMAIN bk.bids}
           \cup {Range(bk.asks[p]) : p \in DOMAIN bk.asks})

\* two CXL datagrams that differ in the client id alone leave the same venue
\* and the same book
SameForAnyClient ==
    \A id \in IntTokens : \A c1, c2 \in CxlClients :
        handle_client_message(venue, book, <<"CXL", c1, id>>,
                              venue.now_mono_ns, 0)
            = handle_client_message(venue, book, <<"CXL", c2, id>>,
                                    venue.now_mono_ns, 0)

\* the Order objects with the order id that rest
RestingWithId(bk, order_id) ==
    {h \in RestingHandles(bk) :
        bk.orders[h].order_id = order_id /\ AboveEps(bk.orders[h].remaining)}

\* the datagram just taken is a CXL for an order id with which an order
\* rests, whosever it is, and an order with that id has left the book
CxlRemoves ==
    (/\ wire'.n = wire.n + 1 /\ wire'.to = "venue"
     /\ Len(wire'.parts) = 3 /\ wire'.parts[1] = "CXL"
     /\ wire'.parts[3] \in IntTokens
     /\ RestingWithId(book, int(wire'.parts[3])) # {})
    => \E h \in RestingWithId(book, int(wire'.parts[3])) :
           h \notin RestingHandles(book')

\* C35: the effect of a CXL on a venue does not depend on the client id it
\* carries: two CXL datagrams that differ in the client id alone lead from
\* any state to the same book, and a CXL from any client removes a resting
\* order with that order id, an order of another client or of the random
\* flow included.
C35_CxlOfAnyClient == []SameForAnyClient /\ [][CxlRemoves]_vars

\* a CXL of one client has removed the resting order of another: the second
\* datagram was a CXL of the bridge's client for the one order that has come
\* to rest, an order of the random flow, and the book is empty with no Trade
\* made
CxlOfAnotherClient ==
    /\ wire.n = 1 /\ wire.parts = <<"CXL", CLIENT_ID, "1000000000">>
    /\ book.nadd = 1 /\ venue.next_order_id = RfgFirstId + 1
    /\ venue.book_trades = <<>>
    /\ RestingHandles(book) = {}

\* ------------------------------------------------------------------------
\* Termination of add_order
\* ------------------------------------------------------------------------

\* C36: add_order terminates for every order and every reachable book: no
\* pass of the outer matching loop leaves the inner loop on a level it has
\* not emptied with an incoming order it has not exhausted (the pass that
\* would repeat for ever), and the call makes no more Trades than orders
\* rested when it began, each Trade but the last taking one of them away.
C36_AddOrderTerminates ==
    last.op = "add"
        => /\ last.status # "spin"
           /\ Len(last.trades) <= Cardinality(RestingHandles(last.pre))

\* a market buy has walked two levels of asks, emptied both and returned
C36_Witness ==
    /\ last.op = "add" /\ last.status = "ok"
    /\ last.order.side = "B" /\ last.order.type = "M"
    /\ Len(last.pre.ask_prices) = 2
    /\ Len(last.trades) = 2
    /\ book.ask_prices = <<>>

====
